---- MODULE Spec2Model ----
(***************************************************************************)
(* Alert-driven bracket order lifecycle manager (edartmds/var1-20).        *)
(*                                                                         *)
(* The repository keeps several variants of the webhook handler and of the *)
(* order monitor.  Each variant is modelled by its own actions and its own *)
(* specification over the shared broker state:                             *)
(*   Spec          main_fixed.py     webhook + monitor_all_orders          *)
(*   SpecMain      main.py           monitor_all_orders                    *)
(*   SpecOptimized main_optimized.py webhook_optimized + force close       *)
(***************************************************************************)
EXTENDS Integers, Sequences, FiniteSets, TLC

(***************************************************************************)
(* Bounds of the model.                                                    *)
(***************************************************************************)
MaxSignals == 2        \* alerts delivered to the webhook in one behaviour

(***************************************************************************)
(* Shared vocabulary.                                                      *)
(***************************************************************************)
Labels == <<"ENTRY", "TP1", "STOP">>     \* key order of order_tracking

NoId == 0                                \* order_tracking[label] is None

Opposite(action) == IF action = "Buy" THEN "Sell" ELSE "Buy"

\* Prices carried by the alerts of the model (PRICE, T1, STOP of the alert).
AlertPrice(action, key) ==
    IF action = "Buy"
    THEN (IF key = "PRICE" THEN 100 ELSE IF key = "T1" THEN 110 ELSE 95)
    ELSE (IF key = "PRICE" THEN 100 ELSE IF key = "T1" THEN 90 ELSE 105)

Symbols == {"NQ", "ES"}

\* An alert as delivered: the JSON keys symbol, action, PRICE, T1, STOP and
\* T2; lower tells whether the payload also has the lower-case key "price"
\* (with the value of PRICE).
RawAlert(symbol, action, price, t2, lower) ==
    [symbol |-> symbol, action |-> action, PRICE |-> price,
     T1 |-> AlertPrice(action, "T1"), STOP |-> AlertPrice(action, "STOP"),
     T2 |-> t2, lower |-> lower]

NoAlert == [direction |-> "none"]        \* symbol not in last_alert

NoData == [action |-> "none"]            \* no alert is being handled

\* An alert after parsing: the action and the price keys present in `data`.
Alert(action, keys) == [action |-> action, keys |-> keys]

Alerts ==
    { Alert("Buy",  {"PRICE", "T1", "STOP"}),
      Alert("Sell", {"PRICE", "STOP"}),
      Alert("Buy",  {"PRICE", "T1"}),
      Alert("Buy",  {"T1", "STOP"}) }

VARIABLES
    \* ---- broker (collaborator): what the REST API holds ----
    orders,     \* sequence of orders, the index is the broker-assigned id
    netPos,     \* net position of the instrument
    \* ---- main_fixed.py: webhook ----
    recent_alert_hashes,  \* set of hashes of the alerts admitted so far
    wpc,        \* position of the running webhook handler ("idle" if none)
    wdata,      \* the parsed alert of the running handler
    wplan,      \* order_plan entries not yet placed
    wtrack,     \* order_tracking of the running handler
    wresults,   \* labels appended to order_results
    responses,  \* the status returned for each delivered alert, in order
    \* ---- main_fixed.py: monitor_all_orders tasks ----
    mons,       \* one record per task created by the webhook
    \* ---- main.py: monitor_all_orders ----
    mm,         \* the monitor task started for one bracket
    \* ---- main_optimized.py: webhook_optimized ----
    now,            \* datetime.now(), in seconds
    last_alert,     \* last_alert: symbol -> the record of the last admitted alert
    opc,            \* position of the running handler ("idle" if none)
    odata,          \* the parsed alert of the running handler
    oattempt,       \* attempt of force_close_all_positions_immediately
    osuccess,       \* success, the result of the force close
    oresponses,     \* the status returned for each delivered alert
    otasks,         \* order_tracking of each monitor task created
    \* ---- deduplication guards ----
    variant,        \* the variant whose guard receives the alerts
    dlog,           \* the alerts delivered to the guard and its verdicts
    \* ---- the start of the webhook handlers, up to the guard's verdict ----
    ilog,           \* per delivery: the broker requests issued and the status
    \* ---- fixed_stop_loss.py: the webhook awaiting monitor_all_orders ----
    sl,             \* the awaited monitor call and the handler's response
    \* ---- the cancel-and-flatten step, run several times in succession ----
    rc,             \* the running step and the outcome of each finished run
    \* ---- tradovate_api.py: one call of the adapter ----
    ad              \* the call, the answers it got, its sleeps and its result

brokerVars == <<orders, netPos>>
fixedRest  == <<wpc, wdata, wplan, wtrack, wresults, responses, mons>>
fixedVars  == <<recent_alert_hashes, fixedRest>>
mainVars   == <<mm>>
optVars    == <<opc, odata, oattempt, osuccess, oresponses, otasks>>
dedupVars  == <<variant, dlog>>
extVars    == <<ilog, sl, rc, ad>>
notExtVars == <<fixedVars, mainVars, now, last_alert, optVars, dedupVars>>
notIntakeVars    == <<sl, rc, ad>>      \* of extVars, what SpecIntake leaves alone
notStopLossVars  == <<ilog, rc, ad>>    \* of extVars, what SpecStopLoss leaves alone
notReconcileVars == <<ilog, sl, ad>>    \* of extVars, what SpecReconcile leaves alone
notAdapterVars   == <<ilog, sl, rc>>    \* of extVars, what SpecAdapter leaves alone
notFixedVars == <<mainVars, now, last_alert, optVars, dedupVars, extVars>>
notMainVars  == <<fixedVars, now, last_alert, optVars, dedupVars, extVars>>
notOptVars   == <<fixedVars, mainVars, dedupVars, extVars>>
vars == <<brokerVars, fixedVars, mainVars, now, last_alert, optVars, dedupVars, extVars>>

(***************************************************************************)
(* Broker REST API (collaborator).  An order is                            *)
(*   [label, action, orderType, price, qty, parent, status, owner]         *)
(* where label and owner (the delivery that created it) are bookkeeping of *)
(* the model and the rest is what the API reports.  parent is the primary  *)
(* order of an OSO bracket leg (0 for an order placed on its own); a leg   *)
(* is held "Suspended" until its primary is filled.                        *)
(***************************************************************************)
OrderIds == 1..Len(orders)

NewOrder(label, action, otype, price, owner) ==
    [label |-> label, action |-> action, orderType |-> otype, price |-> price,
     qty |-> 1, parent |-> 0, status |-> "Working", owner |-> owner]

\* A bracket leg of an OSO request whose primary order gets the id `parent`.
BracketLeg(order, parent) == [order EXCEPT !.status = "Suspended", !.parent = parent]

\* The broker executes a working order: the position moves by its quantity
\* and the bracket legs held for it start working.
BrokerFill(id) ==
    /\ orders[id].status = "Working"
    /\ orders' = [n \in DOMAIN orders |->
                    IF n = id THEN [orders[n] EXCEPT !.status = "Filled"]
                    ELSE IF orders[n].parent = id /\ orders[n].status = "Suspended"
                    THEN [orders[n] EXCEPT !.status = "Working"]
                    ELSE orders[n]]
    /\ netPos' = netPos + (IF orders[id].action = "Buy" THEN orders[id].qty
                                                        ELSE 0 - orders[id].qty)

\* Effect of a cancel request the broker honours: only a working order changes.
CancelAt(ords, id) ==
    IF ords[id].status = "Working"
    THEN [ords EXCEPT ![id].status = "Cancelled"]
    ELSE ords

\* Effect of a cancel-all request the broker honours.
CancelAllAt(ords) ==
    [id \in DOMAIN ords |->
        IF ords[id].status = "Working"
        THEN [ords[id] EXCEPT !.status = "Cancelled"]
        ELSE ords[id]]

(***************************************************************************)
(* main_fixed.py: webhook                                                  *)
(***************************************************************************)
MAX_HASHES == 20

\* hash_alert: sha256 of the canonical JSON (sort_keys) of the whole alert;
\* two alerts have the same digest exactly when all their keys and values
\* are equal.
hash_alert(data) == [key \in DOMAIN data |-> data[key]]

\* Lines 249-251: the hash is added; beyond MAX_HASHES entries the set is
\* cut to MAX_HASHES of them, in the iteration order of the set.
RememberHash(current_hash) ==
    LET added == recent_alert_hashes \cup {current_hash}
    IN IF Cardinality(added) > MAX_HASHES
       THEN \E kept \in SUBSET added :
               /\ Cardinality(kept) = MAX_HASHES
               /\ recent_alert_hashes' = kept
       ELSE recent_alert_hashes' = added

\* open_orders of wait_until_no_open_orders and of the webhook's own check.
open_orders_fixed == { id \in OrderIds : orders[id].status \in {"Working", "Accepted"} }

EmptyTracking == [l \in {"ENTRY", "TP1", "STOP"} |-> NoId]

\* order_plan: TP1 first, then ENTRY; the STOP is only prepared.
order_plan(data) ==
    (IF "T1" \in data.keys THEN <<"TP1">> ELSE <<>>) \o
    (IF "PRICE" \in data.keys THEN <<"ENTRY">> ELSE <<>>)

PlanOrder(label, data, owner) ==
    IF label = "TP1"
    THEN NewOrder("TP1", Opposite(data.action), "Limit",
                  AlertPrice(data.action, "T1"), owner)
    ELSE NewOrder("ENTRY", data.action, "Stop",
                  AlertPrice(data.action, "PRICE"), owner)

\* stop_order_data, or None when the alert carries no STOP.
stop_order_data(data) == "STOP" \in data.keys

\* The delivery the running handler serves.
CurDelivery == Len(responses) + 1

\* asyncio.create_task(monitor_all_orders(order_tracking, symbol, stop_order_data))
NewMonitor(tracking, data, owner) ==
    [owner |-> owner, tracking |-> tracking, action |-> data.action,
     stop_data |-> stop_order_data(data), entry_filled |-> FALSE,
     i |-> 1, active |-> {}, pc |-> "poll", how |-> "running"]

\* The handler returns: its response is recorded and the handler is idle.
Respond(status) ==
    /\ responses' = Append(responses, [status |-> status, results |-> wresults])
    /\ wpc' = "idle"
    /\ wdata' = Alert("Buy", {})
    /\ wplan' = <<>>
    /\ wtrack' = EmptyTracking
    /\ wresults' = {}

\* Lines 406-410: the monitor task is created and "success" is returned.
FinishSuccess(tracking, results) ==
    /\ mons' = Append(mons, NewMonitor(tracking, wdata, CurDelivery))
    /\ responses' = Append(responses, [status |-> "success", results |-> results])
    /\ wpc' = "idle"
    /\ wdata' = Alert("Buy", {})
    /\ wplan' = <<>>
    /\ wtrack' = EmptyTracking
    /\ wresults' = {}

\* Lines 229-251: the alert is parsed and checked against recent_alert_hashes.
WebhookStart(data) ==
    /\ wpc = "idle"
    /\ Len(responses) < MaxSignals
    /\ IF hash_alert(data) \in recent_alert_hashes
       THEN /\ responses' = Append(responses, [status |-> "duplicate", results |-> {}])
            /\ UNCHANGED <<recent_alert_hashes, wpc, wdata>>
       ELSE /\ RememberHash(hash_alert(data))
            /\ wpc' = "poslist"
            /\ wdata' = data
            /\ UNCHANGED responses
    /\ UNCHANGED <<wplan, wtrack, wresults, mons, brokerVars>>
    /\ UNCHANGED notFixedVars

\* Lines 261-281: position list before flattening (opposite-direction log).
WebhookPosList(ok) ==
    /\ wpc = "poslist"
    /\ IF ok
       THEN /\ wpc' = "cancel"
            /\ UNCHANGED <<wdata, wplan, wtrack, wresults, responses>>
       ELSE Respond("error")
    /\ UNCHANGED <<recent_alert_hashes, mons, brokerVars>>
    /\ UNCHANGED notFixedVars

\* Lines 46-50 and 285: cancel_all_orders posts cancelallorders and ignores
\* the response; an httpx exception ends the handler with status 500.
WebhookCancelAll(outcome) ==
    /\ wpc = "cancel"
    /\ \/ /\ outcome = "done"
          /\ orders' = CancelAllAt(orders)
          /\ wpc' = "flatten"
          /\ UNCHANGED <<wdata, wplan, wtrack, wresults, responses>>
       \/ /\ outcome = "noop"
          /\ wpc' = "flatten"
          /\ UNCHANGED <<orders, wdata, wplan, wtrack, wresults, responses>>
       \/ /\ outcome = "raise"
          /\ Respond("error")
          /\ UNCHANGED orders
    /\ UNCHANGED <<netPos, recent_alert_hashes, mons>>
    /\ UNCHANGED notFixedVars

\* Lines 52-56 and 286: flatten_position posts closeposition, response ignored.
WebhookFlatten(outcome) ==
    /\ wpc = "flatten"
    /\ \/ /\ outcome = "done"
          /\ netPos' = 0
          /\ wpc' = "wait"
          /\ UNCHANGED <<wdata, wplan, wtrack, wresults, responses>>
       \/ /\ outcome = "noop"
          /\ wpc' = "wait"
          /\ UNCHANGED <<netPos, wdata, wplan, wtrack, wresults, responses>>
       \/ /\ outcome = "raise"
          /\ Respond("error")
          /\ UNCHANGED netPos
    /\ UNCHANGED <<orders, recent_alert_hashes, mons>>
    /\ UNCHANGED notFixedVars

\* Lines 58-76 and 287: one poll of wait_until_no_open_orders.  It returns
\* when nothing is open and also, silently, when the timeout has passed.
WebhookWait(outcome) ==
    /\ wpc = "wait"
    /\ \/ /\ outcome = "raise"
          /\ Respond("error")
       \/ /\ outcome = "poll"
          /\ open_orders_fixed = {}
          /\ wpc' = "checkpos"
          /\ UNCHANGED <<wdata, wplan, wtrack, wresults, responses>>
       \/ /\ outcome = "timeout"
          /\ open_orders_fixed # {}
          /\ wpc' = "checkpos"
          /\ UNCHANGED <<wdata, wplan, wtrack, wresults, responses>>
    /\ UNCHANGED <<recent_alert_hashes, mons, brokerVars>>
    /\ UNCHANGED notFixedVars

\* Lines 290-298: the position must be flat.
WebhookCheckPos(ok) ==
    /\ wpc = "checkpos"
    /\ IF ~ok THEN Respond("error")
       ELSE IF netPos # 0 THEN Respond("skipped")
       ELSE /\ wpc' = "checkord"
            /\ UNCHANGED <<wdata, wplan, wtrack, wresults, responses>>
    /\ UNCHANGED <<recent_alert_hashes, mons, brokerVars>>
    /\ UNCHANGED notFixedVars

\* Lines 300-370: no order may be open; then the order plan is built.  With
\* an empty plan the monitor is created and "success" returned at once.
WebhookCheckOrders(ok) ==
    /\ wpc = "checkord"
    /\ IF ~ok THEN Respond("error") /\ UNCHANGED mons
       ELSE IF open_orders_fixed # {} THEN Respond("skipped") /\ UNCHANGED mons
       ELSE IF order_plan(wdata) = <<>>
            THEN FinishSuccess(EmptyTracking, {})
            ELSE /\ wpc' = "place"
                 /\ wplan' = order_plan(wdata)
                 /\ wtrack' = EmptyTracking
                 /\ wresults' = {}
                 /\ UNCHANGED <<wdata, responses, mons>>
    /\ UNCHANGED <<recent_alert_hashes, brokerVars>>
    /\ UNCHANGED notFixedVars

\* Lines 372-410: one order of the plan is placed through client.place_order.
\*   "ok"    the broker accepts the order and answers with its id;
\*   "noid"  the broker answers 200 without an id and holds no order;
\*   "raise" place_order raises, the error is logged and the loop goes on.
\* After the last order the monitor task is created and "success" returned.
WebhookPlace(outcome) ==
    /\ wpc = "place"
    /\ LET label == Head(wplan)
           id == Len(orders) + 1
           track == IF outcome = "ok" THEN [wtrack EXCEPT ![label] = id] ELSE wtrack
           results == IF outcome \in {"ok", "noid"} THEN wresults \cup {label} ELSE wresults
       IN /\ outcome \in {"ok", "noid", "raise"}
          /\ orders' = IF outcome = "ok"
                       THEN Append(orders, PlanOrder(label, wdata, CurDelivery))
                       ELSE orders
          /\ IF Tail(wplan) = <<>>
             THEN FinishSuccess(track, results)
             ELSE /\ wplan' = Tail(wplan)
                  /\ wtrack' = track
                  /\ wresults' = results
                  /\ UNCHANGED <<wpc, wdata, responses, mons>>
    /\ UNCHANGED <<netPos, recent_alert_hashes>>
    /\ UNCHANGED notFixedVars

(***************************************************************************)
(* main_fixed.py: monitor_all_orders (lines 124-218)                       *)
(*                                                                         *)
(* A task is [owner, tracking, action, stop_data, entry_filled, i, active, *)
(* pc, how]: i is the position of the for loop over order_tracking, active *)
(* is active_orders of the current pass, pc is the await the task is at    *)
(* ("poll", "stop1", "stop2", "cancel") or "done" once it has returned.    *)
(***************************************************************************)
\* The next label of the pass whose order id is not None (0: none is left).
NextLabel(m) ==
    IF \E j \in m.i..3 : m.tracking[Labels[j]] # NoId
    THEN CHOOSE j \in m.i..3 :
            /\ m.tracking[Labels[j]] # NoId
            /\ \A h \in m.i..(j - 1) : m.tracking[Labels[h]] = NoId
    ELSE 0

Returned(m, how) == [m EXCEPT !.pc = "done", !.how = how, !.i = 1, !.active = {}]

\* Lines 209-214: after the pass; return when no order is active, else
\* sleep one second and start the next pass.
EndOfLoop(m) ==
    IF m.active = {}
    THEN Returned(m, "noactive")
    ELSE [m EXCEPT !.i = 1, !.active = {}, !.pc = "poll"]

\* The pass goes on with the next label, or ends when none is left.
Continue(m) ==
    IF NextLabel(m) = 0 THEN EndOfLoop(m) ELSE [m EXCEPT !.pc = "poll"]

\* Lines 216-218: an exception inside the pass is logged; after five seconds
\* the loop starts a new pass.
ErrorSleep(m) == [m EXCEPT !.i = 1, !.active = {}, !.pc = "poll"]

\* A variant of the test of line 153 that also takes a working order as filled.
is_filled_or_working(status) == status \in {"Filled", "Working"}

\* Line 153: `status == "Filled"`.
is_filled_fixed(status) == status = "Filled"

\* Line 204: the statuses that keep an order in active_orders.
is_active_status(status) == status \in {"Working", "Accepted"}

\* Lines 150-207: what the pass does with the status of order Labels[j].
OnStatus(m, j, status) ==
    LET label == Labels[j]
        next == [m EXCEPT !.i = j + 1]
    IN IF is_filled_fixed(status)
       THEN IF label = "ENTRY" /\ ~m.entry_filled
            THEN IF m.stop_data
                 THEN [next EXCEPT !.entry_filled = TRUE, !.pc = "stop1"]
                 ELSE Continue([next EXCEPT !.entry_filled = TRUE])
            ELSE IF label = "TP1" /\ m.entry_filled
            THEN IF m.tracking["STOP"] # NoId
                 THEN [m EXCEPT !.i = j, !.pc = "cancel"]
                 ELSE Returned(m, "exit")
            ELSE IF label = "STOP" /\ m.entry_filled
            THEN IF m.tracking["TP1"] # NoId
                 THEN [m EXCEPT !.i = j, !.pc = "cancel"]
                 ELSE Returned(m, "exit")
            ELSE Continue(next)
       ELSE IF is_active_status(status)
       THEN Continue([next EXCEPT !.active = @ \cup {label}])
       ELSE Continue(next)

\* Lines 140-151: the status of the next tracked order is fetched; a failed
\* request raises into the handler of lines 216-218.
MonPoll(k, ok) ==
    /\ k \in DOMAIN mons
    /\ mons[k].pc = "poll"
    /\ LET m == mons[k]
           j == NextLabel(m)
       IN IF j = 0
          THEN /\ ok
               /\ mons' = [mons EXCEPT ![k] = EndOfLoop(m)]
          ELSE IF ~ok
          THEN mons' = [mons EXCEPT ![k] = ErrorSleep(m)]
          ELSE mons' = [mons EXCEPT ![k] =
                           OnStatus(m, j, orders[m.tracking[Labels[j]]].status)]
    /\ UNCHANGED <<brokerVars, recent_alert_hashes, wpc, wdata, wplan, wtrack,
                   wresults, responses>>
    /\ UNCHANGED notFixedVars

StopOrder(m) ==
    NewOrder("STOP", Opposite(m.action), "Stop", AlertPrice(m.action, "STOP"), m.owner)

\* Lines 159-171: the STOP is placed through client.place_order.
\*   "ok"    accepted, the id is stored in order_tracking["STOP"];
\*   "noid"  answered without an id, no order is held;
\*   "raise" the request failed, the fallback of lines 173-186 follows.
MonPlaceStop(k, outcome) ==
    /\ k \in DOMAIN mons
    /\ mons[k].pc = "stop1"
    /\ outcome \in {"ok", "noid", "raise"}
    /\ LET m == mons[k]
           id == Len(orders) + 1
       IN /\ orders' = IF outcome = "ok" THEN Append(orders, StopOrder(m)) ELSE orders
          /\ mons' = [mons EXCEPT ![k] =
                IF outcome = "ok" THEN Continue([m EXCEPT !.tracking["STOP"] = id])
                ELSE IF outcome = "noid" THEN Continue(m)
                ELSE [m EXCEPT !.pc = "stop2"]]
    /\ UNCHANGED <<netPos, recent_alert_hashes, wpc, wdata, wplan, wtrack,
                   wresults, responses>>
    /\ UNCHANGED notFixedVars

\* Lines 172-186: the fallback posts stop_order_data directly; its failure
\* is logged and the pass goes on.
MonPlaceStopFallback(k, outcome) ==
    /\ k \in DOMAIN mons
    /\ mons[k].pc = "stop2"
    /\ outcome \in {"ok", "noid", "raise"}
    /\ LET m == mons[k]
           id == Len(orders) + 1
       IN /\ orders' = IF outcome = "ok" THEN Append(orders, StopOrder(m)) ELSE orders
          /\ mons' = [mons EXCEPT ![k] =
                IF outcome = "ok" THEN Continue([m EXCEPT !.tracking["STOP"] = id])
                ELSE Continue(m)]
    /\ UNCHANGED <<netPos, recent_alert_hashes, wpc, wdata, wplan, wtrack,
                   wresults, responses>>
    /\ UNCHANGED notFixedVars

\* The leg cancelled at pc "cancel": STOP after a TP1 fill, TP1 after a STOP fill.
CancelTarget(m) == IF Labels[m.i] = "TP1" THEN "STOP" ELSE "TP1"

\* Lines 188-202: the other leg's cancel is posted and the monitor returns
\* whatever the broker answered; only an httpx exception reaches line 216.
MonCancel(k, outcome) ==
    /\ k \in DOMAIN mons
    /\ mons[k].pc = "cancel"
    /\ outcome \in {"done", "noop", "raise"}
    /\ LET m == mons[k]
       IN /\ orders' = IF outcome = "done"
                       THEN CancelAt(orders, m.tracking[CancelTarget(m)])
                       ELSE orders
          /\ mons' = [mons EXCEPT ![k] =
                IF outcome = "raise" THEN ErrorSleep(m) ELSE Returned(m, "exit")]
    /\ UNCHANGED <<netPos, recent_alert_hashes, wpc, wdata, wplan, wtrack,
                   wresults, responses>>
    /\ UNCHANGED notFixedVars

(***************************************************************************)
(* main.py: monitor_all_orders (lines 283-429)                             *)
(*                                                                         *)
(* Time is counted in half seconds.  The task is                           *)
(*   [tracking, action, stop_data, entry_filled, stop_placed, elapsed,     *)
(*    i, active, pc, how]                                                  *)
(* where stop_data is "none" (stop_order_data is None), "plain" (the stop  *)
(* payload without a T1 key) or "withT1", and elapsed is the loop time     *)
(* minus monitoring_start_time.                                            *)
(***************************************************************************)
MaxMonitoringTicks == 6   \* max_monitoring_time (line 291), scaled down

POLL_FAST == 1            \* line 423: 0.5 s while the entry is not filled
POLL_SLOW == 2            \* line 423: 1 s once the entry is filled
ERROR_SLEEP == 4          \* line 429: 2 s after an exception

\* Polling is followed in the model until this much time has passed.
ElapsedCap == MaxMonitoringTicks + 2 * ERROR_SLEEP

\* Line 325 and 357, 376: `status and status.lower() == "filled"`.
is_filled_main(status) == status \in {"Filled", "filled", "FILLED"}

MainReturned(m, how) == [m EXCEPT !.pc = "done", !.how = how, !.i = 1, !.active = {}]

\* Lines 413-424: after the pass; the timeout, then the active orders, then
\* the sleep before the next pass.
MainEndOfLoop(m) ==
    IF m.elapsed > MaxMonitoringTicks THEN MainReturned(m, "timeout")
    ELSE IF m.active = {} THEN MainReturned(m, "noactive")
    ELSE [m EXCEPT !.i = 1, !.active = {}, !.pc = "poll",
                   !.elapsed = @ + (IF m.entry_filled THEN POLL_SLOW ELSE POLL_FAST)]

MainContinue(m) ==
    IF NextLabel(m) = 0 THEN MainEndOfLoop(m) ELSE [m EXCEPT !.pc = "poll"]

\* Lines 427-429: the exception is logged and the loop restarts after 2 s;
\* the checks of lines 413-420 are not reached.
MainErrorSleep(m) ==
    [m EXCEPT !.i = 1, !.active = {}, !.pc = "poll", !.elapsed = @ + ERROR_SLEEP]

\* Lines 322-410: what the pass does with the status of order Labels[j].
MainOnStatus(m, j, status) ==
    LET label == Labels[j]
        next == [m EXCEPT !.i = j + 1]
    IN IF label = "ENTRY" /\ is_filled_main(status) /\ ~m.entry_filled
       THEN IF m.stop_data = "withT1"
            THEN [next EXCEPT !.entry_filled = TRUE, !.pc = "oso"]
            ELSE MainContinue([next EXCEPT !.entry_filled = TRUE])
       ELSE IF label = "STOP" /\ is_filled_main(status)
       THEN IF m.tracking["TP1"] # NoId
            THEN [m EXCEPT !.i = j, !.pc = "cancel"]
            ELSE MainReturned(m, "exit")
       ELSE IF label = "TP1" /\ is_filled_main(status)
       THEN IF m.tracking["STOP"] # NoId
            THEN [m EXCEPT !.i = j, !.pc = "cancel"]
            ELSE MainReturned(m, "exit")
       ELSE IF is_active_status(status)
       THEN MainContinue([next EXCEPT !.active = @ \cup {label}])
       ELSE MainContinue(next)

\* Lines 312-322: the status of the next tracked order is fetched.
MainPoll(ok) ==
    /\ mm.pc = "poll"
    /\ mm.elapsed <= ElapsedCap
    /\ LET j == NextLabel(mm)
       IN IF j = 0
          THEN ok /\ mm' = MainEndOfLoop(mm)
          ELSE IF ~ok
          THEN mm' = MainErrorSleep(mm)
          ELSE mm' = MainOnStatus(mm, j, orders[mm.tracking[Labels[j]]].status)
    /\ UNCHANGED <<brokerVars, notMainVars>>

\* Lines 330-354: the OSO posted after the entry fill: a Stop order with the
\* action of stop_order_data, and bracket1, a Limit at T1 with the opposite
\* action, which the broker holds until the Stop fills.
OsoOrders(m) ==
    << NewOrder("STOP", Opposite(m.action), "Stop", AlertPrice(m.action, "STOP"), 1),
       BracketLeg(NewOrder("OSO_TP", Opposite(Opposite(m.action)), "Limit",
                           AlertPrice(m.action, "T1"), 1), Len(orders) + 1) >>

\* Lines 346-354: "ok" sets stop_placed; a response without orderId and an
\* exception are logged; order_tracking is not written in any case.
MainPlaceOSO(outcome) ==
    /\ mm.pc = "oso"
    /\ outcome \in {"ok", "noid", "raise"}
    /\ orders' = IF outcome = "ok" THEN orders \o OsoOrders(mm) ELSE orders
    /\ mm' = MainContinue([mm EXCEPT !.stop_placed = (outcome = "ok")])
    /\ UNCHANGED <<netPos, notMainVars>>

\* Lines 357-406: the other exit leg is cancelled; a non-200 answer and an
\* exception are logged, and the monitor returns.
MainCancel(outcome) ==
    /\ mm.pc = "cancel"
    /\ outcome \in {"done", "noop", "raise"}
    /\ orders' = IF outcome = "done"
                 THEN CancelAt(orders, mm.tracking[CancelTarget(mm)])
                 ELSE orders
    /\ mm' = MainReturned(mm, "exit")
    /\ UNCHANGED <<netPos, notMainVars>>

(***************************************************************************)
(* main_optimized.py: webhook_optimized (lines 293-453) with               *)
(* TradovateClient.force_close_all_positions_immediately                   *)
(* (tradovate_api.py 562-670).  Time is counted in seconds.                *)
(***************************************************************************)
TimeStep == 5             \* the clock of the model advances in these steps
MaxTime == 35             \* the clock stops here

DUPLICATE_THRESHOLD_SECONDS_OPT == 15     \* main_optimized.py line 19

max_attempts == 3                         \* tradovate_api.py line 605

\* The alerts delivered to webhook_optimized: the two Buy alerts differ in
\* PRICE only; the Sell alert also carries the lower-case key.
OptAlerts ==
    { RawAlert("NQ", "Buy", 100, 120, FALSE),
      RawAlert("NQ", "Buy", 101, 120, FALSE),
      RawAlert("NQ", "Sell", 100, 80, TRUE) }

\* Lines 322-326: symbol, action, price, t1 and stop as the handler reads
\* them: the price is data.get("price", 0), that is 0 without the lower-case
\* key; the alerts of the model carry T1 and STOP, so no default applies.
OptParse(data) ==
    [symbol |-> data.symbol, action |-> data.action,
     price |-> IF data.lower THEN data.PRICE ELSE 0,
     t1 |-> data.T1, stop |-> data.STOP]

\* create_alert_hash: md5 of "symbol_action_price_t1_stop"; the digests of
\* two alerts are equal exactly when these texts are.
create_alert_hash(parsed) ==
    <<parsed.symbol, parsed.action, parsed.price, parsed.t1, parsed.stop>>

\* is_duplicate_alert of main_optimized.py (lines 267-281).
is_duplicate_alert_opt(symbol, alert_hash) ==
    /\ last_alert[symbol] # NoAlert
    /\ now - last_alert[symbol].timestamp < DUPLICATE_THRESHOLD_SECONDS_OPT
    /\ last_alert[symbol].alert_hash = alert_hash

OptDelivery == Len(oresponses) + 1

\* The handler returns; confirmed_flat is what force_close had returned.
OptRespond(status, flat) ==
    /\ oresponses' = Append(oresponses, [status |-> status, confirmed_flat |-> flat])
    /\ opc' = "idle"
    /\ odata' = NoData
    /\ oattempt' = 0
    /\ osuccess' = FALSE

\* Lines 299-345: the alert is parsed, checked by is_duplicate_alert and
\* recorded in last_alert; determine_optimal_order_type answers "Stop".
OptStart(data) ==
    /\ opc = "idle"
    /\ Len(oresponses) < MaxSignals
    /\ LET parsed == OptParse(data)
           alert_hash == create_alert_hash(parsed)
       IN IF is_duplicate_alert_opt(parsed.symbol, alert_hash)
          THEN /\ oresponses' = Append(oresponses, [status |-> "duplicate_blocked",
                                                    confirmed_flat |-> FALSE])
               /\ UNCHANGED <<last_alert, opc, odata>>
          ELSE /\ last_alert' = [last_alert EXCEPT ![parsed.symbol] =
                                    [direction |-> parsed.action, timestamp |-> now,
                                     alert_hash |-> alert_hash]]
               /\ opc' = "cancelpending"
               /\ odata' = parsed
               /\ UNCHANGED oresponses
    /\ UNCHANGED <<oattempt, osuccess, otasks, now, brokerVars, notOptVars>>

\* tradovate_api.py 576-602: every pending order is cancelled one by one; a
\* failing list request and failing cancels are logged ("none").
OptCancelPending(outcome) ==
    /\ opc = "cancelpending"
    /\ outcome \in {"all", "none"}
    /\ orders' = IF outcome = "all" THEN CancelAllAt(orders) ELSE orders
    /\ opc' = "attempt"
    /\ UNCHANGED <<netPos, last_alert, odata, oattempt, osuccess, oresponses,
                   otasks, now, notOptVars>>

\* The Market IOC order that closes the position (tradovate_api.py 631-641).
CloseOrder(owner) ==
    [NewOrder("CLOSE", IF netPos > 0 THEN "Sell" ELSE "Buy", "Market", 0, owner)
        EXCEPT !.qty = IF netPos > 0 THEN netPos ELSE 0 - netPos, !.status = "Filled"]

\* tradovate_api.py 608-657: one attempt of the closing loop.
\*   "raise" get_positions raised: logged, next attempt;
\*   "ok"    no open position: True is returned; else the close order is
\*           accepted and executed, then 2 s of sleep and the next attempt;
\*   "fail"  the close order request failed: logged, sleep, next attempt.
\* After max_attempts attempts the final verification follows.
OptCloseAttempt(outcome) ==
    /\ opc = "attempt"
    /\ outcome \in {"ok", "fail", "raise"}
    /\ IF outcome # "raise" /\ netPos = 0
       THEN /\ outcome = "ok"
            /\ osuccess' = TRUE
            /\ opc' = "place"
            /\ UNCHANGED <<oattempt, brokerVars>>
       ELSE /\ IF outcome = "ok"
               THEN /\ orders' = Append(orders, CloseOrder(OptDelivery))
                    /\ netPos' = 0
               ELSE UNCHANGED brokerVars
            /\ oattempt' = oattempt + 1
            /\ opc' = IF oattempt + 1 = max_attempts THEN "verify" ELSE "attempt"
            /\ UNCHANGED osuccess
    /\ UNCHANGED <<last_alert, odata, oresponses, otasks, now, notOptVars>>

\* tradovate_api.py 660-670: the final verification; main_optimized.py
\* 353-360: the result is logged and the handler goes on in both cases.
OptVerify(ok) ==
    /\ opc = "verify"
    /\ osuccess' = (ok /\ netPos = 0)
    /\ opc' = "place"
    /\ UNCHANGED <<last_alert, odata, oattempt, oresponses, otasks, now,
                   brokerVars, notOptVars>>

\* main_optimized.py 362-393: the OSO of the entry with its take-profit leg.
OptOsoOrders(data, owner) ==
    << NewOrder("ENTRY", data.action, "Stop", data.price, owner),
       BracketLeg(NewOrder("TP1", Opposite(data.action), "Limit", data.t1, owner),
                  Len(orders) + 1) >>

\* main_optimized.py 395-447: the OSO is placed, the monitor task created.
\*   "ok"    accepted: orderId and bracketOrders are tracked;
\*   "noid"  answered 200 without orderId, no order is held;
\*   "raise" place_oso_order raised: HTTP 500.
OptPlaceOSO(outcome) ==
    /\ opc = "place"
    /\ outcome \in {"ok", "noid", "raise"}
    /\ orders' = IF outcome = "ok" THEN orders \o OptOsoOrders(odata, OptDelivery)
                                   ELSE orders
    /\ otasks' = IF outcome = "raise" THEN otasks
                 ELSE Append(otasks,
                        IF outcome = "ok"
                        THEN [EmptyTracking EXCEPT !["ENTRY"] = Len(orders) + 1,
                                                   !["TP1"] = Len(orders) + 2]
                        ELSE EmptyTracking)
    /\ OptRespond(IF outcome = "raise" THEN "error" ELSE "success", osuccess)
    /\ UNCHANGED <<netPos, last_alert, now, notOptVars>>

\* Time passes.
Tick ==
    /\ now + TimeStep <= MaxTime
    /\ now' = now + TimeStep
    /\ UNCHANGED <<brokerVars, fixedVars, mainVars, last_alert, optVars, dedupVars, extVars>>

(***************************************************************************)
(* The deduplication guards of the variants, each applied to the alerts    *)
(* delivered to it and logged in dlog:                                     *)
(*   "main"      main.py           is_duplicate_alert (lines 205-242)      *)
(*   "optimized" main_optimized.py webhook_optimized  (lines 322-341)      *)
(*   "enhanced"  enhanced_main.py  webhook            (lines 310-330)      *)
(*   "fixed"     main_fixed.py     webhook            (lines 244-251)      *)
(* main.py does not import hashlib, which its hash_alert uses; the guard   *)
(* is modelled as it runs once the name resolves, as in the other variants.*)
(***************************************************************************)
MaxAlerts == 3            \* alerts delivered to a guard in one behaviour

DUPLICATE_THRESHOLD_SECONDS == 30         \* main.py line 25

Variants == {"main", "optimized", "enhanced", "fixed"}

\* The first two alerts differ in T2 only, the third in PRICE, the fourth in
\* direction; the last is for another instrument.
DedupAlerts ==
    { RawAlert("NQ", "Buy", 100, 120, FALSE),
      RawAlert("NQ", "Buy", 100, 121, FALSE),
      RawAlert("NQ", "Buy", 101, 120, FALSE),
      RawAlert("NQ", "Sell", 100, 80, FALSE),
      RawAlert("ES", "Buy", 100, 120, FALSE) }

\* A variant of hash_alert that also digests the T2 target.
hash_alert_with_T2(data) ==
    <<data.symbol, data.action, data.PRICE, data.T1, data.STOP, data.T2>>

\* main.py hash_alert (lines 191-202): sha256 of the JSON of the five
\* essential fields; other keys of the alert do not enter the digest.
hash_alert_main(data) ==
    <<data.symbol, data.action, data.PRICE, data.T1, data.STOP>>

\* main.py lines 215-228: the test that makes is_duplicate_alert return True.
is_duplicate_alert_main(symbol, data) ==
    /\ last_alert[symbol] # NoAlert
    /\ last_alert[symbol].alert_hash = hash_alert_main(data)
    /\ now - last_alert[symbol].timestamp < DUPLICATE_THRESHOLD_SECONDS

\* The verdict of the guard on the delivered alert is logged.
Logged(data, admitted) ==
    dlog' = Append(dlog, [alert |-> data, time |-> now, admitted |-> admitted])

\* A variant of is_duplicate_alert in which a duplicate refreshes the
\* timestamp of the record, so that the window slides with every delivery.
DedupMainRefreshing(data) ==
    /\ variant = "main"
    /\ Len(dlog) < MaxAlerts
    /\ IF is_duplicate_alert_main(data.symbol, data)
       THEN /\ Logged(data, FALSE)
            /\ last_alert' = [last_alert EXCEPT ![data.symbol].timestamp = now]
       ELSE /\ Logged(data, TRUE)
            /\ last_alert' = [last_alert EXCEPT ![data.symbol] =
                                 [direction |-> data.action, timestamp |-> now,
                                  alert_hash |-> hash_alert_main(data)]]
    /\ UNCHANGED <<variant, now, brokerVars, fixedVars, mainVars, optVars, extVars>>

\* main.py is_duplicate_alert (lines 205-242): a duplicate returns True and
\* leaves last_alert alone; any other alert overwrites last_alert[symbol].
DedupMain(data) ==
    /\ variant = "main"
    /\ Len(dlog) < MaxAlerts
    /\ IF is_duplicate_alert_main(data.symbol, data)
       THEN Logged(data, FALSE) /\ UNCHANGED last_alert
       ELSE /\ Logged(data, TRUE)
            /\ last_alert' = [last_alert EXCEPT ![data.symbol] =
                                 [direction |-> data.action, timestamp |-> now,
                                  alert_hash |-> hash_alert_main(data)]]
    /\ UNCHANGED <<variant, now, brokerVars, fixedVars, mainVars, optVars, extVars>>

\* main_optimized.py lines 322-341: the guard of webhook_optimized.
DedupOpt(data) ==
    /\ variant = "optimized"
    /\ Len(dlog) < MaxAlerts
    /\ LET parsed == OptParse(data)
           alert_hash == create_alert_hash(parsed)
       IN IF is_duplicate_alert_opt(parsed.symbol, alert_hash)
          THEN Logged(data, FALSE) /\ UNCHANGED last_alert
          ELSE /\ Logged(data, TRUE)
               /\ last_alert' = [last_alert EXCEPT ![parsed.symbol] =
                                    [direction |-> parsed.action, timestamp |-> now,
                                     alert_hash |-> alert_hash]]
    /\ UNCHANGED <<variant, now, brokerVars, fixedVars, mainVars, optVars, extVars>>

\* enhanced_main.py lines 310-330: an alert in the direction of the last
\* processed alert of the symbol is ignored, whatever its age and prices.
DedupEnhanced(data) ==
    /\ variant = "enhanced"
    /\ Len(dlog) < MaxAlerts
    /\ LET last == last_alert[data.symbol]
       IN IF last # NoAlert /\ last.direction = data.action
          THEN Logged(data, FALSE) /\ UNCHANGED last_alert
          ELSE /\ Logged(data, TRUE)
               /\ last_alert' = [last_alert EXCEPT ![data.symbol] =
                                    [direction |-> data.action, timestamp |-> now]]
    /\ UNCHANGED <<variant, now, brokerVars, fixedVars, mainVars, optVars, extVars>>

\* main_fixed.py lines 244-251: the guard of the webhook.
DedupFixed(data) ==
    /\ variant = "fixed"
    /\ Len(dlog) < MaxAlerts
    /\ IF hash_alert(data) \in recent_alert_hashes
       THEN Logged(data, FALSE) /\ UNCHANGED recent_alert_hashes
       ELSE Logged(data, TRUE) /\ RememberHash(hash_alert(data))
    /\ UNCHANGED <<variant, now, last_alert, brokerVars, fixedRest, mainVars, optVars, extVars>>

(***************************************************************************)
(* Spec: main_fixed.py, one instrument, alerts handled one after another.  *)
(***************************************************************************)
InitBroker ==
    /\ orders = <<>>
    /\ netPos = 0

InitFixed ==
    /\ recent_alert_hashes = {}
    /\ wpc = "idle"
    /\ wdata = Alert("Buy", {})
    /\ wplan = <<>>
    /\ wtrack = EmptyTracking
    /\ wresults = {}
    /\ responses = <<>>
    /\ mons = <<>>

\* The monitor of main.py is not started by the webhook of main_fixed.py.
NoMainMonitor == [pc |-> "none"]

InitOpt ==
    /\ now = 0
    /\ last_alert = [symbol \in Symbols |-> NoAlert]
    /\ opc = "idle"
    /\ odata = NoData
    /\ oattempt = 0
    /\ osuccess = FALSE
    /\ oresponses = <<>>
    /\ otasks = <<>>

\* No guard is driven on its own in the specifications of the handlers.
InitNoDedup ==
    /\ variant = "none"
    /\ dlog = <<>>

\* Nothing is recorded by the specifications that are added further down.
NoStopLoss == [pc |-> "none"]

NoReconcile == [pc |-> "none"]

NoAdapterCall == [pc |-> "none"]

InitExt ==
    /\ ilog = <<>>
    /\ sl = NoStopLoss
    /\ rc = NoReconcile
    /\ ad = NoAdapterCall

Init == InitBroker /\ InitFixed /\ mm = NoMainMonitor /\ InitOpt /\ InitNoDedup /\ InitExt

EnvFill == \E id \in OrderIds : BrokerFill(id) /\ UNCHANGED <<fixedVars, notFixedVars>>

Next ==
    \/ \E data \in Alerts : WebhookStart(data)
    \/ \E ok \in BOOLEAN : WebhookPosList(ok)
    \/ \E outcome \in {"done", "noop", "raise"} : WebhookCancelAll(outcome)
    \/ \E outcome \in {"done", "noop", "raise"} : WebhookFlatten(outcome)
    \/ \E outcome \in {"poll", "timeout", "raise"} : WebhookWait(outcome)
    \/ \E ok \in BOOLEAN : WebhookCheckPos(ok)
    \/ \E ok \in BOOLEAN : WebhookCheckOrders(ok)
    \/ \E outcome \in {"ok", "noid", "raise"} : WebhookPlace(outcome)
    \/ \E k \in DOMAIN mons, ok \in BOOLEAN : MonPoll(k, ok)
    \/ \E k \in DOMAIN mons, outcome \in {"ok", "noid", "raise"} : MonPlaceStop(k, outcome)
    \/ \E k \in DOMAIN mons, outcome \in {"ok", "noid", "raise"} : MonPlaceStopFallback(k, outcome)
    \/ \E k \in DOMAIN mons, outcome \in {"done", "noop", "raise"} : MonCancel(k, outcome)
    \/ EnvFill

Spec == Init /\ [][Next]_vars

(***************************************************************************)
(* SpecMain: one call of main.py's monitor_all_orders on a bracket the     *)
(* caller has placed.                                                      *)
(***************************************************************************)
\* The brackets handed to the monitor: which legs the caller placed and
\* tracks, and the stop_order_data it passes.
\*   test_order_flow.py 108-125: ENTRY and TP1 tracked, the stop payload;
\*   main_optimized.py 420-426:  the stop payload with a T1 key;
\*   enhanced_main.py 440-460:   the STOP already placed and tracked.
MainBrackets ==
    { [legs |-> <<"ENTRY", "TP1">>, stop_data |-> "plain"],
      [legs |-> <<"ENTRY", "TP1">>, stop_data |-> "withT1"],
      [legs |-> <<"ENTRY", "TP1", "STOP">>, stop_data |-> "none"],
      [legs |-> <<"ENTRY">>, stop_data |-> "none"] }

LegOrder(label, action) ==
    IF label = "ENTRY" THEN NewOrder("ENTRY", action, "Stop", AlertPrice(action, "PRICE"), 1)
    ELSE IF label = "TP1"
    THEN NewOrder("TP1", Opposite(action), "Limit", AlertPrice(action, "T1"), 1)
    ELSE NewOrder("STOP", Opposite(action), "Stop", AlertPrice(action, "STOP"), 1)

InitMain ==
    \E b \in MainBrackets, action \in {"Buy", "Sell"} :
       /\ orders = [n \in 1..Len(b.legs) |-> LegOrder(b.legs[n], action)]
       /\ netPos = 0
       /\ mm = [tracking |-> [l \in {"ENTRY", "TP1", "STOP"} |->
                                 IF \E n \in 1..Len(b.legs) : b.legs[n] = l
                                 THEN CHOOSE n \in 1..Len(b.legs) : b.legs[n] = l
                                 ELSE NoId],
                action |-> action, stop_data |-> b.stop_data,
                entry_filled |-> FALSE, stop_placed |-> FALSE, elapsed |-> 0,
                i |-> 1, active |-> {}, pc |-> "poll", how |-> "running"]
       /\ InitFixed
       /\ InitOpt
       /\ InitNoDedup
       /\ InitExt

NextMain ==
    \/ \E ok \in BOOLEAN : MainPoll(ok)
    \/ \E outcome \in {"ok", "noid", "raise"} : MainPlaceOSO(outcome)
    \/ \E outcome \in {"done", "noop", "raise"} : MainCancel(outcome)
    \/ EnvFill

SpecMain == InitMain /\ [][NextMain]_vars

(***************************************************************************)
(* SpecOptimized: main_optimized.py, one instrument.                       *)
(***************************************************************************)
InitOptimized == Init

NextOptimized ==
    \/ \E data \in OptAlerts : OptStart(data)
    \/ \E outcome \in {"all", "none"} : OptCancelPending(outcome)
    \/ \E outcome \in {"ok", "fail", "raise"} : OptCloseAttempt(outcome)
    \/ \E ok \in BOOLEAN : OptVerify(ok)
    \/ \E outcome \in {"ok", "noid", "raise"} : OptPlaceOSO(outcome)
    \/ EnvFill
    \/ Tick

SpecOptimized == InitOptimized /\ [][NextOptimized]_vars

(***************************************************************************)
(* SpecDedup: the guard of one variant receives up to MaxAlerts alerts.    *)
(***************************************************************************)
InitDedup ==
    /\ InitBroker /\ InitFixed /\ mm = NoMainMonitor /\ InitOpt
    /\ variant \in Variants
    /\ dlog = <<>>
    /\ InitExt

NextDedup ==
    \/ \E data \in DedupAlerts : DedupMain(data)
    \/ \E data \in DedupAlerts : DedupOpt(data)
    \/ \E data \in DedupAlerts : DedupEnhanced(data)
    \/ \E data \in DedupAlerts : DedupFixed(data)
    \/ Tick

SpecDedup == InitDedup /\ [][NextDedup]_vars

(***************************************************************************)
(* Properties of Spec (main_fixed.py).                                     *)
(***************************************************************************)
ActiveMonitors == { k \in DOMAIN mons : mons[k].pc # "done" }

\* The monitor task k has seen its ENTRY order Filled, and the broker holds it so.
EntryObservedFilled(k) ==
    /\ mons[k].entry_filled
    /\ mons[k].tracking["ENTRY"] # NoId
    /\ orders[mons[k].tracking["ENTRY"]].status = "Filled"

\* The status of the leg `label` of monitor m; "absent" when it was never placed.
LegStatus(m, label) ==
    IF m.tracking[label] = NoId THEN "absent" ELSE orders[m.tracking[label]].status

\* C2: a STOP order is at the broker, is being submitted, or is recorded in
\* order_tracking["STOP"] only for a bracket whose monitor has observed the
\* ENTRY order Filled; the webhook itself never submits or records one.
StopOnlyAfterEntryFilled ==
    /\ wtrack["STOP"] = NoId
    /\ \A id \in OrderIds :
          orders[id].label = "STOP" =>
             \E k \in DOMAIN mons :
                mons[k].owner = orders[id].owner /\ EntryObservedFilled(k)
    /\ \A k \in DOMAIN mons :
          (mons[k].tracking["STOP"] # NoId \/ mons[k].pc \in {"stop1", "stop2"})
             => EntryObservedFilled(k)

\* C2 witness: a monitor has placed the STOP after the ENTRY fill and holds its id.
StopPlacedAfterEntryFill ==
    \E k \in DOMAIN mons :
       /\ mons[k].tracking["STOP"] # NoId
       /\ orders[mons[k].tracking["STOP"]].label = "STOP"
       /\ orders[mons[k].tracking["STOP"]].status = "Working"
       /\ EntryObservedFilled(k)

\* C3: when a monitor has finished on an exit fill, exactly one of TP1 and
\* STOP is Filled and the other is Cancelled or was never placed.
ExitLegsSettledAtDone ==
    \A k \in DOMAIN mons :
       (mons[k].pc = "done" /\ mons[k].how = "exit") =>
          LET tp == LegStatus(mons[k], "TP1")
              st == LegStatus(mons[k], "STOP")
          IN \/ tp = "Filled" /\ st \in {"Cancelled", "absent"}
             \/ st = "Filled" /\ tp \in {"Cancelled", "absent"}

\* C4: a monitor whose ENTRY is Filled returns only after it has observed the
\* TP1 or the STOP Filled (main_fixed.py has no timeout to return by).
SupervisesUntilExitFill ==
    \A k \in DOMAIN mons :
       (mons[k].pc = "done" /\ mons[k].entry_filled) => mons[k].how = "exit"

\* C7: at most one monitor task is active, and none is active once the
\* handler of a new signal has begun its reconciliation.
OneMonitorPerInstrument ==
    /\ Cardinality(ActiveMonitors) <= 1
    /\ wpc \in {"cancel", "flatten", "wait", "checkpos", "checkord", "place"}
          => ActiveMonitors = {}

(***************************************************************************)
(* Properties of SpecMain (main.py).                                       *)
(***************************************************************************)
\* C5: once the monitor has seen the ENTRY Filled with a stop specification
\* pending, and the placement has not failed, a STOP order is recorded in
\* order_tracking["STOP"].
StopRecordedOnEntryFill ==
    (/\ mm.pc \in {"poll", "cancel", "done"}
     /\ mm.entry_filled
     /\ mm.stop_data # "none"
     /\ ~(mm.stop_data = "withT1" /\ ~mm.stop_placed))
       => /\ mm.tracking["STOP"] # NoId
          /\ orders[mm.tracking["STOP"]].label = "STOP"

\* C6: the monitor is not polling any more once max_monitoring_time plus one
\* poll or error-sleep interval has passed since it started.
MonitorStopsByDeadline ==
    mm.pc \in {"poll", "oso", "cancel"} => mm.elapsed <= MaxMonitoringTicks + ERROR_SLEEP

(***************************************************************************)
(* Properties of SpecOptimized (main_optimized.py).                        *)
(***************************************************************************)
\* C1: a signal whose reconciliation did not confirm the instrument flat
\* gets no ENTRY or TAKE_PROFIT order: every delivery that reached the order
\* placement had the force close return True.
PlacesOnlyWhenConfirmedFlat ==
    /\ opc = "place" => osuccess
    /\ \A n \in DOMAIN oresponses :
          oresponses[n].status = "success" => oresponses[n].confirmed_flat

(***************************************************************************)
(* Properties of SpecDedup (the deduplication guards).                     *)
(***************************************************************************)
\* The fingerprint of a signal: symbol, action, PRICE, T1 and STOP.
Fingerprint(n) ==
    <<dlog[n].alert.symbol, dlog[n].alert.action, dlog[n].alert.PRICE,
      dlog[n].alert.T1, dlog[n].alert.STOP>>

\* The dedup window of the variant, in seconds.
DedupWindow ==
    IF variant = "optimized" THEN DUPLICATE_THRESHOLD_SECONDS_OPT
                             ELSE DUPLICATE_THRESHOLD_SECONDS

\* Deliveries i < j carry the same fingerprint, arrive within the window,
\* and no different signal of their instrument was admitted in between.
DuplicatePair(i, j) ==
    /\ i < j
    /\ Fingerprint(i) = Fingerprint(j)
    /\ dlog[j].time - dlog[i].time < DedupWindow
    /\ \A k \in (i + 1)..(j - 1) :
          (dlog[k].alert.symbol = dlog[i].alert.symbol /\ Fingerprint(k) # Fingerprint(i))
             => ~dlog[k].admitted

\* Delivery i is the signal of the instrument of j that came just before j.
PreviousSignal(i, j) ==
    /\ i < j
    /\ dlog[i].alert.symbol = dlog[j].alert.symbol
    /\ \A k \in (i + 1)..(j - 1) : dlog[k].alert.symbol # dlog[j].alert.symbol

ChangedSignalAdmitted ==
    variant \in {"main", "enhanced"} =>
       \A i, j \in DOMAIN dlog :
          (PreviousSignal(i, j) /\ Fingerprint(i) # Fingerprint(j)) => dlog[j].admitted

\* C10: once the window has passed since a signal was last admitted, the
\* identical signal is admitted again: a repeat is suppressed only while the
\* last admitted identical signal is younger than the window (main.py,
\* main_fixed.py, enhanced_main.py).
IdenticalAdmittedAfterWindow ==
    variant \in {"main", "fixed", "enhanced"} =>
       \A i, j \in DOMAIN dlog :
          (/\ i < j
           /\ Fingerprint(i) = Fingerprint(j)
           /\ dlog[i].admitted
           /\ \A k \in (i + 1)..(j - 1) :
                 Fingerprint(k) = Fingerprint(i) => ~dlog[k].admitted
           /\ dlog[j].time - dlog[i].time >= DedupWindow)
             => dlog[j].admitted

(***************************************************************************)
(* SpecIntake: the start of the webhook handlers, from the request body to *)
(* the verdict of the duplicate guard, with the broker requests issued on  *)
(* the way.                                                                *)
(*   "fixed"      main_fixed.py     webhook            (lines 226-251)     *)
(*   "optimized"  main_optimized.py webhook_optimized  (lines 299-341)     *)
(* A text/plain body and a JSON body that denote the same dict have the    *)
(* same hash_alert digest.                                                 *)
(***************************************************************************)
MaxDeliveries == 2        \* alerts delivered to a handler in one behaviour

ContentTypes == {"application/json", "text/plain"}

\* What handling a delivery did up to the verdict of the guard.
Intake(content_type, data, requests, status) ==
    ilog' = Append(ilog, [content_type |-> content_type, data |-> data,
                          time |-> now, requests |-> requests, status |-> status])

\* main_fixed.py 231-238: a text/plain body that holds "symbol=" (every
\* body parse_alert_to_tradovate_json accepts holds it) is preceded by a
\* market-data quote request, get_latest_price.
requests_before_guard(content_type) ==
    IF content_type = "text/plain" THEN <<"quote">> ELSE <<>>

\* main_fixed.py 226-251.  A failing quote request raises into the handler's
\* `except Exception` (411-413), status 500; otherwise the digest is looked
\* up in recent_alert_hashes.
IntakeFixed(content_type, data, quote_ok) ==
    /\ variant = "fixed"
    /\ Len(ilog) < MaxDeliveries
    /\ LET requests == requests_before_guard(content_type)
       IN IF requests # <<>> /\ ~quote_ok
          THEN /\ Intake(content_type, data, requests, "error")
               /\ UNCHANGED recent_alert_hashes
          ELSE IF hash_alert(data) \in recent_alert_hashes
          THEN /\ Intake(content_type, data, requests, "duplicate")
               /\ UNCHANGED recent_alert_hashes
          ELSE /\ Intake(content_type, data, requests, "admitted")
               /\ RememberHash(hash_alert(data))
    /\ UNCHANGED <<brokerVars, fixedRest, mainVars, now, last_alert, optVars, dedupVars,
                   notIntakeVars>>

\* main_optimized.py 299-341: the body is read as JSON, whatever the content
\* type, and no request is sent before is_duplicate_alert has answered.
IntakeOpt(data) ==
    /\ variant = "optimized"
    /\ Len(ilog) < MaxDeliveries
    /\ LET parsed == OptParse(data)
           alert_hash == create_alert_hash(parsed)
       IN IF is_duplicate_alert_opt(parsed.symbol, alert_hash)
          THEN /\ Intake("application/json", data, <<>>, "duplicate_blocked")
               /\ UNCHANGED last_alert
          ELSE /\ Intake("application/json", data, <<>>, "admitted")
               /\ last_alert' = [last_alert EXCEPT ![parsed.symbol] =
                                    [direction |-> parsed.action, timestamp |-> now,
                                     alert_hash |-> alert_hash]]
    /\ UNCHANGED <<brokerVars, fixedVars, mainVars, now, optVars, dedupVars, notIntakeVars>>

InitIntake ==
    /\ InitBroker /\ InitFixed /\ mm = NoMainMonitor /\ InitOpt
    /\ variant \in {"fixed", "optimized"}
    /\ dlog = <<>>
    /\ InitExt

NextIntake ==
    \/ \E content_type \in ContentTypes, data \in Alerts, quote_ok \in BOOLEAN :
          IntakeFixed(content_type, data, quote_ok)
    \/ \E data \in OptAlerts : IntakeOpt(data)
    \/ Tick

SpecIntake == InitIntake /\ [][NextIntake]_vars

\* Delivery i was admitted and delivery i+1 is the identical request (same
\* body, same content type) less than the optimized window (15 s) later.
RepeatedDelivery(i) ==
    /\ i \in DOMAIN ilog /\ i + 1 \in DOMAIN ilog
    /\ ilog[i].status = "admitted"
    /\ ilog[i + 1].data = ilog[i].data
    /\ ilog[i + 1].content_type = ilog[i].content_type
    /\ ilog[i + 1].time - ilog[i].time < DUPLICATE_THRESHOLD_SECONDS_OPT

\* C11: when an identical signal is delivered twice within the window, the
\* handling of the second delivery issues no broker request (no quote,
\* listing, cancel, flatten or order request) and returns a duplicate status.
DuplicateIssuesNoBrokerCall ==
    \A i \in DOMAIN ilog :
       RepeatedDelivery(i) =>
          /\ ilog[i + 1].status \in {"duplicate", "duplicate_blocked"}
          /\ ilog[i + 1].requests = <<>>

(***************************************************************************)
(* Properties of the order plan (main_fixed.py 311-410).                   *)
(***************************************************************************)
\* The orders the step submits for the delivery being handled.
SubmittedByHandler ==
    { id \in (DOMAIN orders') \ (DOMAIN orders) : orders'[id].owner = CurDelivery }

\* C12: a signal without an entry price (PRICE absent) is rejected as
\* incomplete: while it is handled no order, neither ENTRY nor TAKE_PROFIT,
\* is submitted, and the handler does not answer "success".
NoOrderWithoutEntryPrice ==
    [][ (wpc # "idle" /\ "PRICE" \notin wdata.keys) =>
           /\ SubmittedByHandler = {}
           /\ (Len(responses') > Len(responses) =>
                 responses'[Len(responses')].status # "success") ]_vars

(***************************************************************************)
(* Properties of SpecMain: the take-profit orders.                         *)
(***************************************************************************)
\* The take-profit orders of the bracket: the TP1 the caller placed and the
\* bracket1 leg of the OSO the monitor posts after the entry fill.
TakeProfitOrders == { id \in OrderIds : orders[id].label \in {"TP1", "OSO_TP"} }

\* C13: every take-profit order submitted for a bracket, by the webhook or by
\* the monitor's post-fill OSO request, is a Limit order at the take-profit
\* price whose action is opposite to the direction of the signal.
TakeProfitIsOppositeLimit ==
    \A id \in TakeProfitOrders :
       /\ orders[id].orderType = "Limit"
       /\ orders[id].price = AlertPrice(mm.action, "T1")
       /\ orders[id].action = Opposite(mm.action)

(***************************************************************************)
(* Properties of Spec: what the acknowledgement of the webhook tells.      *)
(***************************************************************************)
\* The broker accepted an ENTRY order (it assigned an id) for delivery i.
EntryAccepted(i) ==
    \E id \in OrderIds : orders[id].owner = i /\ orders[id].label = "ENTRY"

\* C14: the webhook returns "success" only if the broker accepted the orders
\* it placed, at least the ENTRY order having a broker-assigned id; when
\* every placement failed it does not report success.
SuccessOnlyIfEntryAccepted ==
    \A i \in DOMAIN responses :
       responses[i].status = "success" => EntryAccepted(i)

(***************************************************************************)
(* SpecStopLoss: fixed_stop_loss.py.  The webhook has executed its order   *)
(* plan (lines 498-528) and awaits monitor_all_orders (lines 531-535); it  *)
(* returns "success" (line 538) when the call returns.  sl holds the state *)
(* of that call (lines 190-361) and the handler's response:                *)
(*   tracking, entry_filled, stop_placed, active: as in the code;          *)
(*   attempt: the index of the `for attempt in range(3)` loop;             *)
(*   i: the place of the pass in order_tracking; pc: "poll", "stop",       *)
(*   "direct", "cancel" or "done"; unprotected: the "unprotected" error    *)
(*   has been logged; response: "none" until the handler has returned.     *)
(* How long the requests and sleeps of a pass take is left open: the hour  *)
(* of max_monitoring_time may be over at the end of any pass.              *)
(***************************************************************************)
STOP_ATTEMPTS == 3                       \* range(3), line 248

SlReturned(m, how) ==
    [m EXCEPT !.pc = "done", !.how = how, !.i = 1, !.active = {},
              !.response = "success"]

\* Lines 341-357: after the pass.
SlEndOfLoop(m, expired) ==
    IF expired THEN SlReturned(m, "timeout")
    ELSE IF m.active = {} THEN SlReturned(m, "noactive")
    ELSE [m EXCEPT !.i = 1, !.active = {}, !.pc = "poll"]

\* The pass goes on with the next tracked label, or ends.
SlContinue(m, expired) ==
    IF NextLabel(m) = 0 THEN SlEndOfLoop(m, expired) ELSE [m EXCEPT !.pc = "poll"]

\* Lines 359-361: an exception inside the pass; a new pass after 5 seconds.
SlErrorSleep(m) == [m EXCEPT !.i = 1, !.active = {}, !.pc = "poll"]

\* Line 237: `status and status.lower() == "filled"`.
is_filled_stop_loss(status) == status \in {"Filled", "filled", "FILLED"}

\* Lines 237-339: what the pass does with the status of order Labels[j].
SlOnStatus(m, j, status, expired) ==
    LET label == Labels[j]
        next == [m EXCEPT !.i = j + 1]
    IN IF is_filled_stop_loss(status)
       THEN IF label = "ENTRY" /\ ~m.entry_filled /\ ~m.stop_placed
            THEN IF m.stop_data
                 THEN [next EXCEPT !.entry_filled = TRUE, !.pc = "stop", !.attempt = 0]
                 ELSE SlContinue([next EXCEPT !.entry_filled = TRUE,
                                              !.unprotected = TRUE], expired)
            ELSE IF label = "TP1" /\ m.entry_filled
            THEN IF m.tracking["STOP"] # NoId
                 THEN [m EXCEPT !.i = j, !.pc = "cancel"]
                 ELSE SlReturned(m, "exit")
            ELSE IF label = "STOP" /\ m.entry_filled
            THEN IF m.tracking["TP1"] # NoId
                 THEN [m EXCEPT !.i = j, !.pc = "cancel"]
                 ELSE SlReturned(m, "exit")
            ELSE SlContinue(next, expired)
       ELSE IF is_active_status(status)
       THEN SlContinue([next EXCEPT !.active = @ \cup {label}], expired)
       ELSE SlContinue(next, expired)

\* Lines 219-235: the status of the next tracked order is fetched; a failed
\* request raises into the handler of lines 359-361.
SlPoll(ok, expired) ==
    /\ sl.pc = "poll"
    /\ LET j == NextLabel(sl)
       IN IF j = 0
          THEN ok /\ sl' = SlEndOfLoop(sl, expired)
          ELSE IF ~ok
          THEN sl' = SlErrorSleep(sl)
          ELSE sl' = SlOnStatus(sl, j, orders[sl.tracking[Labels[j]]].status, expired)
    /\ UNCHANGED <<brokerVars, notExtVars, notStopLossVars>>

\* What a placement request may come to: see SlPlaceStop.
PlaceOutcomes == {"ok", "noid", "raise", "ok_noid", "ok_lost"}

\* The broker has accepted the order of the request and holds it.
broker_accepted(outcome) == outcome \in {"ok", "ok_noid", "ok_lost"}

\* Lines 248-286: an attempt of the loop that places the STOP through
\* client.place_order.
\*   "ok"    the response has an id: it is tracked, stop_placed is set;
\*   "noid"  the response has no id: logged, next attempt after a second;
\*   "raise" place_order raised:     logged, next attempt after a second.
\* The broker holds no order after "noid" and "raise"; after "ok_noid" and
\* "ok_lost" it has accepted the order, and the response lacked the id or
\* did not arrive (the request timed out, place_order raised).
\* After the last failed attempt the direct call of lines 289-302 follows.
SlPlaceStop(outcome, expired) ==
    /\ sl.pc = "stop"
    /\ outcome \in PlaceOutcomes
    /\ orders' = IF broker_accepted(outcome) THEN Append(orders, StopOrder(sl)) ELSE orders
    /\ sl' = IF outcome = "ok"
             THEN SlContinue([sl EXCEPT !.tracking["STOP"] = Len(orders) + 1,
                                        !.stop_placed = TRUE], expired)
             ELSE IF sl.attempt + 1 < STOP_ATTEMPTS
             THEN [sl EXCEPT !.attempt = @ + 1]
             ELSE [sl EXCEPT !.attempt = @ + 1, !.pc = "direct"]
    /\ UNCHANGED <<netPos, notExtVars, notStopLossVars>>

\* Lines 289-302: place_stop_loss_order (lines 141-187) posts the payload
\* itself and returns (None, error) on every failure, which is logged with
\* "POSITION REMAINS UNPROTECTED!".
SlDirect(outcome, expired) ==
    /\ sl.pc = "direct"
    /\ outcome \in {"ok", "fail", "ok_lost"}
    /\ orders' = IF broker_accepted(outcome) THEN Append(orders, StopOrder(sl)) ELSE orders
    /\ sl' = IF outcome = "ok"
             THEN SlContinue([sl EXCEPT !.tracking["STOP"] = Len(orders) + 1,
                                        !.stop_placed = TRUE], expired)
             ELSE SlContinue([sl EXCEPT !.unprotected = TRUE], expired)
    /\ UNCHANGED <<netPos, notExtVars, notStopLossVars>>

\* Lines 307-336: the other exit leg is cancelled inside its own try/except
\* and the monitor returns whatever happened to the request.
SlCancel(outcome) ==
    /\ sl.pc = "cancel"
    /\ outcome \in {"done", "noop", "raise"}
    /\ orders' = IF outcome = "done"
                 THEN CancelAt(orders, sl.tracking[CancelTarget(sl)])
                 ELSE orders
    /\ sl' = SlReturned(sl, "exit")
    /\ UNCHANGED <<netPos, notExtVars, notStopLossVars>>

\* The order plans the webhook may have got accepted before the call (each
\* placement of lines 498-528 may have failed) and whether the alert had a
\* STOP (stop_order_data, lines 467-484).
StopLossBrackets ==
    { [legs |-> legs, stop_data |-> stop_data] :
         legs \in {<<"ENTRY", "TP1">>, <<"ENTRY">>, <<"TP1">>},
         stop_data \in BOOLEAN }

InitStopLoss ==
    \E b \in StopLossBrackets, action \in {"Buy", "Sell"} :
       /\ orders = [n \in 1..Len(b.legs) |-> LegOrder(b.legs[n], action)]
       /\ netPos = 0
       /\ sl = [owner |-> 1,
                tracking |-> [l \in {"ENTRY", "TP1", "STOP"} |->
                                 IF \E n \in 1..Len(b.legs) : b.legs[n] = l
                                 THEN CHOOSE n \in 1..Len(b.legs) : b.legs[n] = l
                                 ELSE NoId],
                action |-> action, stop_data |-> b.stop_data,
                entry_filled |-> FALSE, stop_placed |-> FALSE, attempt |-> 0,
                unprotected |-> FALSE, i |-> 1, active |-> {}, pc |-> "poll",
                how |-> "running", response |-> "none"]
       /\ InitFixed /\ mm = NoMainMonitor /\ InitOpt /\ InitNoDedup
       /\ ilog = <<>>
       /\ rc = NoReconcile
       /\ ad = NoAdapterCall

NextStopLoss ==
    \/ \E ok \in BOOLEAN, expired \in BOOLEAN : SlPoll(ok, expired)
    \/ \E outcome \in PlaceOutcomes, expired \in BOOLEAN :
          SlPlaceStop(outcome, expired)
    \/ \E outcome \in {"ok", "fail", "ok_lost"}, expired \in BOOLEAN :
          SlDirect(outcome, expired)
    \/ \E outcome \in {"done", "noop", "raise"} : SlCancel(outcome)
    \/ EnvFill

SpecStopLoss == InitStopLoss /\ [][NextStopLoss]_vars

\* C15: the webhook returns its acknowledgement as soon as the orders are
\* accepted, without waiting for an order to fill or for the monitor to
\* reach a terminal state: the handler has answered whenever its monitor has
\* seen the entry filled.
AckDoesNotWaitForFill ==
    sl.entry_filled => sl.response = "success"

(***************************************************************************)
(* Properties of Spec: a failed STOP submission.                           *)
(***************************************************************************)
\* Monitor k leaves its first STOP submission (lines 159-171) in this step
\* and holds no STOP order id afterwards.
FirstStopSubmissionFailed(k) ==
    /\ mons[k].pc = "stop1"
    /\ mons'[k].pc # "stop1"
    /\ mons'[k].tracking["STOP"] = NoId

\* C16: when ENTRY is observed Filled and submitting the STOP fails, the
\* monitor retries the placement (and reports the unprotected position when
\* the retries fail too); it never goes on with ENTRY Filled, no STOP placed
\* and nothing retried or reported.
FailedStopIsRetried ==
    [][ \A k \in DOMAIN mons :
           FirstStopSubmissionFailed(k) => mons'[k].pc = "stop2" ]_vars

(***************************************************************************)
(* Properties of SpecOptimized: force_close_all_positions_immediately.     *)
(***************************************************************************)
\* The orders a fresh listing shows resting at the broker.
RestingOrders(ords) == { id \in DOMAIN ords : ords[id].status = "Working" }

\* C17: force_close_all_positions_immediately has two outcomes only: it
\* returns True and a fresh listing shows no resting order and a zero net
\* position, or it returns False; it never returns True while an order is
\* still resting or a position is still open.
ForceCloseTrueMeansFlat ==
    [][ (~osuccess /\ osuccess') =>
           (netPos' = 0 /\ RestingOrders(orders') = {}) ]_vars

(***************************************************************************)
(* SpecReconcile: the cancel-and-flatten step run MaxRuns times in         *)
(* succession on a broker that holds resting orders and a position.        *)
(*   "force_close"  TradovateClient.force_close_all_positions_immediately  *)
(*                  (tradovate_api.py 562-670);                            *)
(*   "main"         cancel_all_orders (main.py 86-116) followed by         *)
(*                  flatten_position (main.py 119-123).                    *)
(* rc.pc is "idle" between runs; rc.honoured tells whether every request   *)
(* of the running step was honoured by the broker; rc.done holds, for each *)
(* finished run, its result and the broker state it left.                  *)
(***************************************************************************)
MaxRuns == 2              \* runs of the step in one behaviour

MAX_CANCEL_RETRIES == 8   \* max_retries of cancel_all_orders, main.py line 93

\* A variant of the filter of get_pending_orders that leaves working orders out.
is_pending_without_working(status) == status \in {"Pending", "Submitted"}

\* The filter of get_pending_orders (tradovate_api.py line 266).
is_pending(status) == status \in {"Pending", "Working", "Submitted"}

\* A variant of the filter of line 99 that keeps the working orders only.
is_working_or_accepted(status) == status \in {"Working", "Accepted"}

\* The filter of cancel_all_orders (main.py line 99).
is_open_main(status) == status \notin {"Filled", "Cancelled", "Rejected"}

\* The filter of get_positions (tradovate_api.py line 432).
has_open_position(net_pos) == net_pos # 0

\* The broker honours the cancel requests for the orders in ids.
CancelEach(ords, ids) ==
    [id \in DOMAIN ords |-> IF id \in ids THEN CancelAt(ords, id)[id] ELSE ords[id]]

\* The run returns: its result and the broker state it leaves are recorded.
RcFinished(result, honoured, ords, net) ==
    [rc EXCEPT !.pc = "idle", !.attempt = 0, !.honoured = TRUE,
               !.done = Append(@, [result |-> result, honoured |-> honoured,
                                   orders |-> ords, netPos |-> net])]

\* tradovate_api.py 576-602: the pending orders are listed and cancelled one
\* by one; a failing listing (listed = FALSE) and failing cancels are logged.
RcCancelPending(listed, cancelled) ==
    /\ rc.kind = "force_close"
    /\ rc.pc = "idle"
    /\ Len(rc.done) < MaxRuns
    /\ LET pending == { id \in OrderIds : is_pending(orders[id].status) }
       IN /\ cancelled \subseteq pending
          /\ ~listed => cancelled = {}
          /\ orders' = CancelEach(orders, cancelled)
          /\ rc' = [rc EXCEPT !.pc = "attempt", !.attempt = 0,
                              !.honoured = listed /\ cancelled = pending]
    /\ UNCHANGED <<netPos, notExtVars, notReconcileVars>>

\* tradovate_api.py 608-657: one attempt of the closing loop, as in
\* OptCloseAttempt.
RcCloseAttempt(outcome) ==
    /\ rc.kind = "force_close"
    /\ rc.pc = "attempt"
    /\ outcome \in {"ok", "fail", "raise"}
    /\ IF outcome # "raise" /\ ~has_open_position(netPos)
       THEN /\ outcome = "ok"
            /\ rc' = RcFinished(TRUE, rc.honoured, orders, netPos)
            /\ UNCHANGED brokerVars
       ELSE /\ IF outcome = "ok"
               THEN /\ orders' = Append(orders, CloseOrder(Len(rc.done) + 1))
                    /\ netPos' = 0
               ELSE UNCHANGED brokerVars
            /\ rc' = [rc EXCEPT !.attempt = @ + 1,
                                !.honoured = @ /\ outcome = "ok",
                                !.pc = IF rc.attempt + 1 = max_attempts
                                       THEN "verify" ELSE "attempt"]
    /\ UNCHANGED <<notExtVars, notReconcileVars>>

\* tradovate_api.py 660-670: the final verification decides the result.
RcVerify(ok) ==
    /\ rc.kind = "force_close"
    /\ rc.pc = "verify"
    /\ rc' = RcFinished(ok /\ ~has_open_position(netPos), rc.honoured /\ ok,
                        orders, netPos)
    /\ UNCHANGED <<brokerVars, notExtVars, notReconcileVars>>

\* main.py 93-116: one round of cancel_all_orders.  The orders are listed (a
\* failing listing raises out of the function); when none is open the loop
\* is left, else every open order gets a cancel request, whose failure is
\* logged.  After the loop the final check lists once more.
RcMainCancel(ok, cancelled) ==
    /\ rc.kind = "main"
    /\ \/ rc.pc = "idle" /\ Len(rc.done) < MaxRuns
       \/ rc.pc = "cancel"
    /\ LET open == { id \in OrderIds : is_open_main(orders[id].status) }
       IN IF ~ok
          THEN /\ cancelled = {}
               /\ rc' = RcFinished("raised", FALSE, orders, netPos)
               /\ UNCHANGED orders
          ELSE /\ cancelled \subseteq open
               /\ orders' = CancelEach(orders, cancelled)
               /\ rc' = [rc EXCEPT
                            !.attempt = IF open = {} THEN @ ELSE @ + 1,
                            !.honoured = (IF rc.pc = "idle" THEN TRUE ELSE @)
                                         /\ cancelled = open,
                            !.pc = IF open = {} \/ rc.attempt + 1 = MAX_CANCEL_RETRIES
                                   THEN "flatten" ELSE "cancel"]
    /\ UNCHANGED <<netPos, notExtVars, notReconcileVars>>

\* main.py 119-123: flatten_position posts closeposition and ignores the
\* answer; only an httpx exception leaves the function.
\*   "done"  the broker closes the position, if one is open;
\*   "noop"  the broker answers with an error status;
\*   "raise" the request failed.
RcMainFlatten(outcome) ==
    /\ rc.kind = "main"
    /\ rc.pc = "flatten"
    /\ outcome \in {"done", "noop", "raise"}
    /\ LET closes == outcome = "done" /\ netPos # 0
           ords == IF closes THEN Append(orders, CloseOrder(Len(rc.done) + 1))
                             ELSE orders
           net == IF closes THEN 0 ELSE netPos
       IN /\ orders' = ords
          /\ netPos' = net
          /\ rc' = RcFinished(IF outcome = "raise" THEN "raised" ELSE "returned",
                              rc.honoured /\ outcome = "done", ords, net)
    /\ UNCHANGED <<notExtVars, notReconcileVars>>

\* What the step may find at the broker: a filled entry with its two exit
\* legs and the entry of another alert resting; resting orders without a
\* position; nothing.
ReconcileBrokers ==
    { [orders |-> << [LegOrder("ENTRY", action) EXCEPT !.status = "Filled"],
                     LegOrder("TP1", action), LegOrder("STOP", action),
                     LegOrder("ENTRY", Opposite(action)) >>,
       netPos |-> IF action = "Buy" THEN 1 ELSE 0 - 1] : action \in {"Buy", "Sell"} }
    \cup { [orders |-> <<LegOrder("TP1", "Buy"), LegOrder("ENTRY", "Buy")>>, netPos |-> 0],
           [orders |-> <<>>, netPos |-> 0] }

InitReconcile ==
    \E b \in ReconcileBrokers, kind \in {"force_close", "main"} :
       /\ orders = b.orders
       /\ netPos = b.netPos
       /\ rc = [kind |-> kind, pc |-> "idle", attempt |-> 0, honoured |-> TRUE,
                done |-> <<>>]
       /\ InitFixed /\ mm = NoMainMonitor /\ InitOpt /\ InitNoDedup
       /\ ilog = <<>>
       /\ sl = NoStopLoss
       /\ ad = NoAdapterCall

NextReconcile ==
    \/ \E listed \in BOOLEAN, cancelled \in SUBSET OrderIds :
          RcCancelPending(listed, cancelled)
    \/ \E outcome \in {"ok", "fail", "raise"} : RcCloseAttempt(outcome)
    \/ \E ok \in BOOLEAN : RcVerify(ok)
    \/ \E ok \in BOOLEAN, cancelled \in SUBSET OrderIds : RcMainCancel(ok, cancelled)
    \/ \E outcome \in {"done", "noop", "raise"} : RcMainFlatten(outcome)
    \/ EnvFill

SpecReconcile == InitReconcile /\ [][NextReconcile]_vars

\* No order rests and no position is open.
Flat(ords, net) == net = 0 /\ RestingOrders(ords) = {}

Clients == {"api", "optimized"}

NoRetryAfter == 0 - 1                    \* the answer has no Retry-After header

\* max_retries of authenticate: tradovate_api.py 36, tradovate_api_optimized.py 51.
max_retries(client) == IF client = "api" THEN 5 ELSE 3

\* int(backoff_factor * (attempt + 1)) with backoff_factor 2 (tradovate_api.py
\* 37) and 1.5 (tradovate_api_optimized.py 52).
fallback_backoff(client, attempt) ==
    IF client = "api" THEN 2 * (attempt + 1) ELSE (3 * (attempt + 1)) \div 2

\* Line 89: int(e.response.headers.get("Retry-After", <fallback>)).
retry_after_seconds(client, attempt, answer) ==
    IF answer.retry_after = NoRetryAfter THEN fallback_backoff(client, attempt)
    ELSE answer.retry_after

\* A variant of the test of line 88 that also retries on a server error.
is_rate_limited_or_server_error(status_code) == status_code \in {429, 500}

\* Line 88: `e.response.status_code == 429`.
is_rate_limited(status_code) == status_code = 429

RetryAfterHeaders == {NoRetryAfter, 2, 7}

Answer(stage, status, retry_after) ==
    [stage |-> stage, status |-> status, retry_after |-> retry_after]

\* The answers to an attempt of authenticate: both requests answered 200
\* with a usable account; a 429 or another error status to the token request
\* or to the account list request; any other exception.
AuthAnswers ==
    {Answer("list", 200, NoRetryAfter), Answer("token", 0, NoRetryAfter)}
    \cup { Answer(stage, 429, h) : stage \in {"token", "list"}, h \in RetryAfterHeaders }
    \cup { Answer(stage, status, NoRetryAfter) : stage \in {"token", "list"},
                                          status \in {401, 500} }

\* The answers to a placement request.
PostAnswers ==
    {Answer("post", 200, NoRetryAfter), Answer("post", 0, NoRetryAfter)}
    \cup { Answer("post", 429, h) : h \in RetryAfterHeaders }
    \cup { Answer("post", status, NoRetryAfter) : status \in {401, 500} }

AdRaised(a, code) == [a EXCEPT !.pc = "done", !.result = "raised", !.code = code]

PlacementCalls == {"place_order", "place_oso_order"}

CancelCalls == {"cancel_order", "cancel_all_pending_orders", "_fast_cancel_order"}

\* The request a call sends once `if not self.access_token` is passed.
first_request(call) ==
    IF call \in PlacementCalls THEN "post"
    ELSE IF call = "cancel_all_pending_orders" THEN "list" ELSE "cancel"

\* tradovate_api.py 39-101: one attempt of authenticate.
AuthAttempt(answer) ==
    /\ ad.pc = "auth"
    /\ answer \in AuthAnswers
    /\ LET seen == [ad EXCEPT !.tokens = Append(@, answer),
                              !.access_token = @ \/ answer.stage = "list"]
       IN ad' =
          IF answer.status = 200
          THEN IF ad.call = "authenticate"
               THEN [seen EXCEPT !.pc = "done", !.result = "returned"]
               ELSE [seen EXCEPT !.pc = first_request(ad.call)]
          ELSE IF answer.status = 0
          THEN AdRaised(seen, 500)
          ELSE IF is_rate_limited(answer.status)
          THEN LET slept == [seen EXCEPT
                                !.sleeps = Append(@, [after |-> answer.stage,
                                     seconds |-> retry_after_seconds(ad.client,
                                                     ad.attempt, answer)]),
                                !.attempt = @ + 1]
               IN IF ad.attempt + 1 = max_retries(ad.client)
                  THEN AdRaised(slept, 429)
                  ELSE slept
          ELSE AdRaised(seen, answer.status)
    /\ UNCHANGED <<brokerVars, notExtVars, notAdapterVars>>

\* tradovate_api.py 131-145 and 166-183: the placement request; a response
\* with an error status and any other exception are raised as HTTPException.
PlacePost(answer) ==
    /\ ad.pc = "post"
    /\ answer \in PostAnswers
    /\ LET seen == [ad EXCEPT !.posts = Append(@, answer)]
       IN ad' = IF answer.status = 200
                THEN [seen EXCEPT !.pc = "done", !.result = "returned"]
                ELSE IF answer.status = 0 THEN AdRaised(seen, 500)
                ELSE AdRaised(seen, answer.status)
    /\ UNCHANGED <<brokerVars, notExtVars, notAdapterVars>>

\* A variant of the test of line 313 that also forgives an expired token.
is_not_found_or_unauthorized(status_code) == status_code \in {404, 401}

\* tradovate_api.py 313, tradovate_api_optimized.py 237 and 414:
\* `status_code == 404`.
is_not_found(status_code) == status_code = 404

\* The answers to a cancel request.
CancelAnswers ==
    { Answer("cancel", status, NoRetryAfter) : status \in {200, 404, 401, 500, 0} }

\* tradovate_api.py 303-321 (tradovate_api_optimized.py 226-245): what
\* cancel_order does with the answer: it returns the response body, returns
\* the already_handled result on 404, and raises anything else.
cancel_order(answer) ==
    IF answer.status = 200
    THEN [raised |-> FALSE, value |-> "response_data", level |-> "info"]
    ELSE IF answer.status = 0
    THEN [raised |-> TRUE, code |-> 500, level |-> "error"]
    ELSE IF is_not_found(answer.status)
    THEN [raised |-> FALSE, value |-> "already_handled", level |-> "info"]
    ELSE [raised |-> TRUE, code |-> answer.status, level |-> "error"]

\* tradovate_api_optimized.py 410-419: _fast_cancel_order only logs.
fast_cancel_level(answer) ==
    IF answer.status = 200 THEN "info"
    ELSE IF answer.status = 0 THEN "error"
    ELSE IF is_not_found(answer.status) THEN "info"
    ELSE "warning"

\* tradovate_api.py 333 (get_pending_orders 259-276) and 356-358: the order
\* list of cancel_all_pending_orders; a failure is raised as status 500.
ListPending(ok) ==
    /\ ad.pc = "list"
    /\ ad' = IF ~ok THEN AdRaised(ad, 500)
             ELSE IF ad.pending = <<>>
             THEN [ad EXCEPT !.pc = "done", !.result = "returned", !.ret = "list"]
             ELSE [ad EXCEPT !.pc = "cancel"]
    /\ UNCHANGED <<brokerVars, notExtVars, notAdapterVars>>

\* One cancel request and what the call does with its answer: cancel_order
\* (tradovate_api.py 303-321), one round of the loop of
\* cancel_all_pending_orders (336-354) or _fast_cancel_order
\* (tradovate_api_optimized.py 410-419).
CancelPost(answer) ==
    /\ ad.pc = "cancel"
    /\ answer \in CancelAnswers
    /\ LET r == cancel_order(answer)
           id == Head(ad.pending)
           seen == [ad EXCEPT !.cancels = Append(@, answer), !.pending = Tail(@)]
       IN ad' =
          IF ad.call = "_fast_cancel_order"
          THEN [seen EXCEPT !.pc = "done", !.result = "returned", !.ret = "None",
                            !.log = Append(@, fast_cancel_level(answer))]
          ELSE IF ad.call = "cancel_order"
          THEN IF r.raised
               THEN AdRaised([seen EXCEPT !.log = Append(@, r.level)], r.code)
               ELSE [seen EXCEPT !.pc = "done", !.result = "returned",
                                 !.ret = r.value, !.log = Append(@, r.level)]
          ELSE LET kept ==
                      IF ~r.raised
                      THEN [seen EXCEPT !.cancelled_orders =
                               Append(@, [id |-> id, status |-> r.value]),
                               !.log = Append(@, "info")]
                      ELSE IF is_not_found(r.code)
                      THEN [seen EXCEPT !.cancelled_orders =
                               Append(@, [id |-> id, status |-> "already_handled"]),
                               !.log = Append(@, "info")]
                      ELSE [seen EXCEPT !.log = Append(@, "error")]
               IN IF kept.pending = <<>>
                  THEN [kept EXCEPT !.pc = "done", !.result = "returned",
                                    !.ret = "list"]
                  ELSE kept
    /\ UNCHANGED <<brokerVars, notExtVars, notAdapterVars>>

\* The orders a cancel call is about: one for cancel_order and
\* _fast_cancel_order, the pending orders of the account for
\* cancel_all_pending_orders.
PendingLists(call) ==
    IF call = "cancel_all_pending_orders" THEN {<<>>, <<1>>, <<1, 2>>}
    ELSE IF call \in CancelCalls THEN {<<1>>}
    ELSE {<<>>}

InitAdapter ==
    \E client \in Clients,
       call \in PlacementCalls \cup CancelCalls \cup {"authenticate"},
       access_token \in BOOLEAN :
       /\ call = "authenticate" => ~access_token
       /\ call = "_fast_cancel_order" => client = "optimized" /\ access_token
       /\ \E pending \in PendingLists(call) :
          ad = [client |-> client, call |-> call, access_token |-> access_token,
                pc |-> IF access_token THEN first_request(call) ELSE "auth",
                attempt |-> 0, tokens |-> <<>>, posts |-> <<>>, sleeps |-> <<>>,
                pending |-> pending, cancels |-> <<>>, cancelled_orders |-> <<>>,
                ret |-> "none", log |-> <<>>,
                result |-> "none", code |-> 0]
       /\ InitBroker /\ InitFixed /\ mm = NoMainMonitor /\ InitOpt /\ InitNoDedup
       /\ ilog = <<>>
       /\ sl = NoStopLoss
       /\ rc = NoReconcile

NextAdapter ==
    \/ \E answer \in AuthAnswers : AuthAttempt(answer)
    \/ \E answer \in PostAnswers : PlacePost(answer)
    \/ \E ok \in BOOLEAN : ListPending(ok)
    \/ \E answer \in CancelAnswers : CancelPost(answer)

SpecAdapter == InitAdapter /\ [][NextAdapter]_vars

\* The sleeps of the call that followed a placement request.
SleepsAfterPost == { n \in DOMAIN ad.sleeps : ad.sleeps[n].after = "post" }

\* C19: when the broker answers a placement request (place_order or
\* place_oso_order) with HTTP 429 and a retry-after value, the adapter waits
\* at least that long and sends the placement again: a finished call whose
\* first placement request got a 429 has slept and has sent a second one.
PlacementRetriedAfter429 ==
    (/\ ad.call \in PlacementCalls
     /\ ad.pc = "done"
     /\ ad.posts # <<>>
     /\ ad.posts[1].status = 429
     /\ ad.posts[1].retry_after # NoRetryAfter) =>
        /\ Len(ad.posts) >= 2
        /\ \E n \in SleepsAfterPost : ad.sleeps[n].seconds >= ad.posts[1].retry_after

\* The call has run under weak fairness: an attempt that can be made is made.
SpecAdapterFair == SpecAdapter /\ WF_vars(NextAdapter)

\* Every attempt of authenticate so far was answered 429 to the token request.
EveryTokenRequestRateLimited ==
    \A n \in DOMAIN ad.tokens :
       ad.tokens[n].stage = "token" /\ ad.tokens[n].status = 429

\* The n-th sleep lasted what the n-th answer asked for, or the fallback.
SleptAsAsked(n) ==
    /\ n \in DOMAIN ad.sleeps
    /\ ad.sleeps[n].seconds =
          IF ad.tokens[n].retry_after # NoRetryAfter
          THEN ad.tokens[n].retry_after
          ELSE fallback_backoff(ad.client, n - 1)

AuthenticateBounded ==
    /\ Len(ad.tokens) <= max_retries(ad.client)
    /\ (ad.pc = "done" /\ ad.tokens # <<>> /\ EveryTokenRequestRateLimited) =>
          /\ Len(ad.tokens) = max_retries(ad.client)
          /\ ad.result = "raised" /\ ad.code = 429
          /\ \A n \in 1..(Len(ad.tokens) - 1) : SleptAsAsked(n)
    /\ \A n \in DOMAIN ad.tokens :
          ad.tokens[n].status \notin {200, 429} =>
             /\ n = Len(ad.tokens)
             /\ ad.pc = "done" /\ ad.result = "raised"

\* C20: authenticate, when every token request is answered with HTTP 429,
\* makes exactly max_retries attempts, sleeping the Retry-After of the answer
\* (or the fallback backoff) between them, and then fails with an error
\* instead of looping; any other error fails at once, without a retry; the
\* call always comes to an end.
AuthenticateFailsAfterMaxRetries ==
    []AuthenticateBounded /\ <>(ad.pc = "done")

\* authenticate has failed after max_retries answers of 429 to the token
\* request, one with a Retry-After header and one without.
AuthenticateExhausted ==
    /\ ad.call = "authenticate"
    /\ ad.pc = "done" /\ ad.result = "raised" /\ ad.code = 429
    /\ Len(ad.tokens) = max_retries(ad.client)
    /\ EveryTokenRequestRateLimited
    /\ \E n \in DOMAIN ad.tokens : ad.tokens[n].retry_after = NoRetryAfter
    /\ \E n \in DOMAIN ad.tokens : ad.tokens[n].retry_after # NoRetryAfter

(***************************************************************************)
(* Token reuse and cancel answers (SpecAdapter).                           *)
(***************************************************************************)
\* This step received an answer of HTTP 401 to a placement or cancel request.
Answered401 ==
    \/ /\ Len(ad'.posts) > Len(ad.posts)
       /\ ad'.posts[Len(ad'.posts)].status = 401
    \/ /\ Len(ad'.cancels) > Len(ad.cancels)
       /\ ad'.cancels[Len(ad'.cancels)].status = 401

\* C21: when a broker call is answered with HTTP 401 the adapter
\* re-authenticates instead of keeping the stale token: the step that
\* receives the 401 goes on to authenticate, or at least drops the token so
\* that the next call authenticates.
StaleTokenReplacedOn401 ==
    [][Answered401 => (ad'.pc = "auth" \/ ~ad'.access_token)]_vars

\* The answers to the cancel requests of the call whose status is in S.
CancelsAnswered(S) == { n \in DOMAIN ad.cancels : ad.cancels[n].status \in S }

\* The status the call raises for an answer that is not 200 or 404.
raised_code(answer) == IF answer.status = 0 THEN 500 ELSE answer.status

\* cancel_order has finished as lines 303-321 say for its answer.
CancelOrderOutcome ==
    LET answer == ad.cancels[1]
    IN /\ answer.status = 404 =>
             ad.result = "returned" /\ ad.ret = "already_handled"
       /\ answer.status = 200 =>
             ad.result = "returned" /\ ad.ret = "response_data"
       /\ answer.status \notin {200, 404} =>
             ad.result = "raised" /\ ad.code = raised_code(answer)

\* cancel_all_pending_orders has returned the results of the orders answered
\* 200 or 404, those answered 404 as already_handled, and has left out and
\* logged as errors the others.
CancelAllOutcome ==
    /\ ad.result = "returned" /\ ad.ret = "list"
    /\ Len(ad.cancelled_orders) = Cardinality(CancelsAnswered({200, 404}))
    /\ \A n \in CancelsAnswered({404}) :
          \E j \in DOMAIN ad.cancelled_orders :
             ad.cancelled_orders[j] = [id |-> n, status |-> "already_handled"]
    /\ \A n \in CancelsAnswered({401, 500, 0}) :
          /\ ad.log[n] = "error"
          /\ \A j \in DOMAIN ad.cancelled_orders : ad.cancelled_orders[j].id # n

\* A cancel call has finished after at least one cancel request.
CancelCallDone ==
    ad.call \in CancelCalls /\ ad.pc = "done" /\ ad.cancels # <<>>

\* C22 (as stated): a 404 on cancel is a success and every other HTTP error
\* status on cancel is surfaced as an error, in each of the cancel functions:
\* the call raises it or, in cancel_all_pending_orders, logs it as an error
\* and leaves the order out of its results.
Cancel404SuccessOthersSurfaced ==
    CancelCallDone =>
       /\ ad.call = "cancel_order" => CancelOrderOutcome
       /\ ad.call = "cancel_all_pending_orders" => CancelAllOutcome
       /\ ad.call = "_fast_cancel_order" =>
             /\ ad.cancels[1].status = 404 => ad.result = "returned"
             /\ ad.cancels[1].status \in {401, 500} =>
                   ad.result = "raised" \/ ad.log[1] = "error"

\* C22 (amended): cancel_order returns the already_handled result on 404
\* without raising and raises every other error status;
\* cancel_all_pending_orders counts the orders answered 404 among its results
\* and logs and skips the others; _fast_cancel_order never raises and returns
\* nothing: it logs a 404 like a 200 and any other status as a warning only.
Cancel404SuccessOthersRaisedByCancelOrder ==
    CancelCallDone =>
       /\ ad.call = "cancel_order" => CancelOrderOutcome
       /\ ad.call = "cancel_all_pending_orders" => CancelAllOutcome
       /\ ad.call = "_fast_cancel_order" =>
             /\ ad.result = "returned" /\ ad.ret = "None"
             /\ ad.cancels[1].status \in {200, 404} => ad.log[1] = "info"
             /\ ad.cancels[1].status \in {401, 500} => ad.log[1] = "warning"

\* cancel_all_pending_orders has returned after one order was answered 404
\* and another was answered with a server error.
CancelAllCounted404 ==
    /\ ad.call = "cancel_all_pending_orders"
    /\ ad.pc = "done"
    /\ CancelsAnswered({404}) # {}
    /\ CancelsAnswered({500}) # {}
    /\ Len(ad.cancelled_orders) = 1

(***************************************************************************)
(* SpecParse: the webhook handlers of main.py ("main", lines 436-487) and  *)
(* main_fixed.py ("fixed", lines 222-267 and 411-413) on request bodies    *)
(* that may be malformed, from the request to the rejection or to the      *)
(* first broker request that follows the parsing.  A body is               *)
(*   content_type: the Content-Type header;                                *)
(*   symbol, action: "absent", "empty" or a value;                         *)
(*   PRICE: "absent", "bad" (not a number) or a number, standing for each  *)
(*          of PRICE, T1 and STOP, which line 184 converts alike.          *)
(* Each delivery is logged in ilog with the requests sent to the broker    *)
(* and the HTTP status of the response (0: no response yet, the handler    *)
(* goes on to its position list request).  main.py imports                 *)
(* enhanced_forward_test_manager, which the repository holds, so           *)
(* FORWARD_TESTING_ENABLED is True.                                        *)
(***************************************************************************)
BodyContentTypes == {"application/json", "text/plain", "application/xml"}

Bodies ==
    [content_type : BodyContentTypes,
     symbol : {"absent", "empty", "NQ"},
     action : {"absent", "empty", "Buy"},
     PRICE : {"absent", "bad", "100"}]

\* The dict the body denotes: the keys that are present, with their values.
body_data(body) == [symbol |-> body.symbol, action |-> body.action, PRICE |-> body.PRICE]

\* main.py 176-184 (main_fixed.py 104-111): parse_alert_to_tradovate_json
\* raises ValueError when symbol or action is missing or empty, or when
\* float() fails.
parse_raises(body) ==
    \/ body.symbol \in {"absent", "empty"}
    \/ body.action \in {"absent", "empty"}
    \/ body.PRICE = "bad"

\* main_fixed.py 235: `"symbol=" in text_data`.
has_symbol_line(body) == body.symbol # "absent"

\* main.py 447-454, main_fixed.py 231-239.
is_supported(content_type) == content_type \in {"application/json", "text/plain"}

Parsed(body, requests, status) ==
    ilog' = Append(ilog, [body |-> body, requests |-> requests, status |-> status])

\* main.py 440-487.  Every exception raised in the try block, HTTPException
\* included, is caught at 482 and answered with status 500.  A JSON body is
\* not validated; process_signal (enhanced_forward_test_manager.py 120-142)
\* returns at once for an unknown config_id and converts PRICE, T1 and STOP
\* with float() otherwise.  The handler sends no broker request.
ParseMain(body, config_known) ==
    /\ variant = "main"
    /\ Len(ilog) < MaxDeliveries
    /\ LET status ==
              IF ~is_supported(body.content_type) THEN 500
              ELSE IF body.content_type = "text/plain" /\ parse_raises(body) THEN 500
              ELSE IF config_known /\ body.PRICE = "bad" THEN 500
              ELSE 200
       IN Parsed(body, <<>>, status)
    /\ UNCHANGED <<brokerVars, notExtVars, notIntakeVars>>

\* main_fixed.py 225-267 and 411-413.  A text/plain body with "symbol=" is
\* preceded by the quote request of get_latest_price; the JSON body is not
\* validated: its digest is recorded before data["action"] and
\* data["symbol"] are read (253-254), and the position list request follows.
ParseFixed(body, quote_ok) ==
    /\ variant = "fixed"
    /\ Len(ilog) < MaxDeliveries
    /\ LET text == body.content_type = "text/plain"
           quote == IF text /\ has_symbol_line(body) THEN <<"quote">> ELSE <<>>
           current_hash == hash_alert(body_data(body))
       IN IF \/ ~is_supported(body.content_type)
             \/ quote # <<>> /\ ~quote_ok
             \/ text /\ parse_raises(body)
          THEN Parsed(body, quote, 500) /\ UNCHANGED recent_alert_hashes
          ELSE IF current_hash \in recent_alert_hashes
          THEN Parsed(body, quote, 200) /\ UNCHANGED recent_alert_hashes
          ELSE /\ RememberHash(current_hash)
               /\ IF body.action = "absent" \/ body.symbol = "absent"
                  THEN Parsed(body, quote, 500)
                  ELSE Parsed(body, quote \o <<"position/list">>, 0)
    /\ UNCHANGED <<brokerVars, fixedRest, mainVars, now, last_alert, optVars, dedupVars,
                   notIntakeVars>>

InitParse ==
    /\ InitBroker /\ InitFixed /\ mm = NoMainMonitor /\ InitOpt
    /\ variant \in {"main", "fixed"}
    /\ dlog = <<>>
    /\ InitExt

NextParse ==
    \/ \E body \in Bodies, config_known \in BOOLEAN : ParseMain(body, config_known)
    \/ \E body \in Bodies, quote_ok \in BOOLEAN : ParseFixed(body, quote_ok)

SpecParse == InitParse /\ [][NextParse]_vars

\* The body is malformed: its content type is unsupported, or symbol or
\* action is missing or empty, or a numeric field cannot be parsed.
Malformed(body) == ~is_supported(body.content_type) \/ parse_raises(body)

\* C23: a malformed alert is rejected with a 4xx-class error, in the JSON and
\* in the text encoding, and no broker request is sent while handling it.
MalformedRejectedWith4xx ==
    \A i \in DOMAIN ilog :
       Malformed(ilog[i].body) =>
          /\ ilog[i].status \in 400..499
          /\ ilog[i].requests = <<>>

(***************************************************************************)
(* SpecConcurrent: requests handled concurrently on the asyncio event      *)
(* loop.  A handler runs without interruption from one await to the next,  *)
(* so each step of the model runs one handler from the await it is         *)
(* suspended at up to its next await or its return:                        *)
(*   "body"        `await req.body()` (main_optimized.py 301);             *)
(*   "order_type"  `await client.determine_optimal_order_type(...)` (344), *)
(*                 reached by an admitted alert only;                      *)
(*   "done"        the handler has returned.                               *)
(* Between the two awaits lie the parsing, is_duplicate_alert and the      *)
(* write of last_alert (309-341).  main.py's is_duplicate_alert (205-242)  *)
(* is a plain `def` that checks and records: whoever calls it runs it      *)
(* between two awaits as well.  In this specification ilog holds the       *)
(* requests in flight: [data, pc, admitted, time (of the guard),           *)
(* overlapped (another handler was suspended at its first await when the   *)
(* guard of this one ran)].                                                *)
(***************************************************************************)
\* A variant of the handler with an await between the check and the record.
awaits_between_check_and_record_yes == TRUE

\* main_optimized.py 331-341 and main.py 215-242 hold no await between the
\* check of last_alert and its update.
awaits_between_check_and_record == FALSE

ConcAlerts == IF variant = "main" THEN DedupAlerts ELSE OptAlerts

\* The symbol and digest the guard of the variant computes for an alert.
guard_key(data) ==
    IF variant = "main"
    THEN [symbol |-> data.symbol, action |-> data.action,
          alert_hash |-> hash_alert_main(data)]
    ELSE [symbol |-> OptParse(data).symbol, action |-> OptParse(data).action,
          alert_hash |-> create_alert_hash(OptParse(data))]

\* main.py 219-228, main_optimized.py 272-279.
guard_blocks(key) ==
    /\ last_alert[key.symbol] # NoAlert
    /\ last_alert[key.symbol].alert_hash = key.alert_hash
    /\ now - last_alert[key.symbol].timestamp <
          (IF variant = "main" THEN DUPLICATE_THRESHOLD_SECONDS
           ELSE DUPLICATE_THRESHOLD_SECONDS_OPT)

\* main.py 235-239, main_optimized.py 337-341.
guard_record(key) ==
    [last_alert EXCEPT ![key.symbol] =
        [direction |-> key.action, timestamp |-> now, alert_hash |-> key.alert_hash]]

\* A request arrives: its handler starts and is suspended at its first await.
ConcArrive(data) ==
    /\ Len(ilog) < MaxDeliveries
    /\ data \in ConcAlerts
    /\ ilog' = Append(ilog, [data |-> data, pc |-> "body", admitted |-> FALSE,
                             time |-> 0, overlapped |-> FALSE])
    /\ UNCHANGED <<brokerVars, notExtVars, notIntakeVars>>

\* The event loop resumes handler i, which runs up to its next await.
ConcResume(i) ==
    /\ i \in DOMAIN ilog
    /\ ilog[i].pc # "done"
    /\ LET h == ilog[i]
           key == guard_key(h.data)
           others == { j \in DOMAIN ilog : j # i /\ ilog[j].pc = "body" }
           checked == [h EXCEPT !.time = now, !.overlapped = others # {}]
       IN \/ /\ h.pc = "body"
             /\ IF guard_blocks(key)
                THEN /\ ilog' = [ilog EXCEPT ![i] = [checked EXCEPT !.pc = "done"]]
                     /\ UNCHANGED last_alert
                ELSE IF awaits_between_check_and_record
                THEN /\ ilog' = [ilog EXCEPT ![i] = [checked EXCEPT !.pc = "record"]]
                     /\ UNCHANGED last_alert
                ELSE /\ ilog' = [ilog EXCEPT ![i] =
                                    [checked EXCEPT !.pc = "order_type",
                                                    !.admitted = TRUE]]
                     /\ last_alert' = guard_record(key)
          \/ /\ h.pc = "record"
             /\ ilog' = [ilog EXCEPT ![i] = [h EXCEPT !.pc = "order_type",
                                                      !.admitted = TRUE]]
             /\ last_alert' = guard_record(key)
          \/ /\ h.pc = "order_type"
             /\ ilog' = [ilog EXCEPT ![i] = [h EXCEPT !.pc = "done"]]
             /\ UNCHANGED last_alert
    /\ UNCHANGED <<brokerVars, fixedVars, mainVars, now, optVars, dedupVars,
                   notIntakeVars>>

InitConcurrent ==
    /\ InitBroker /\ InitFixed /\ mm = NoMainMonitor /\ InitOpt
    /\ variant \in {"main", "optimized"}
    /\ dlog = <<>>
    /\ InitExt

NextConcurrent ==
    \/ \E data \in DedupAlerts \cup OptAlerts : ConcArrive(data)
    \/ \E i \in 1..MaxDeliveries : ConcResume(i)
    \/ Tick

SpecConcurrent == InitConcurrent /\ [][NextConcurrent]_vars

\* The guard of request i has run.
Decided(i) == ilog[i].pc \in {"record", "order_type", "done"}

\* Requests i and j carry the same signal for the same instrument, their
\* guards ran less than the window apart, and no other request for the
\* instrument has been decided.
IdenticalPairAlone(i, j) ==
    /\ i # j
    /\ Decided(i) /\ Decided(j)
    /\ guard_key(ilog[i].data) = guard_key(ilog[j].data)
    /\ ilog[j].time - ilog[i].time <
          (IF variant = "main" THEN DUPLICATE_THRESHOLD_SECONDS
           ELSE DUPLICATE_THRESHOLD_SECONDS_OPT)
    /\ ilog[i].time <= ilog[j].time
    /\ \A k \in DOMAIN ilog \ {i, j} :
          Decided(k) => guard_key(ilog[k].data).symbol # guard_key(ilog[i].data).symbol

\* Request i passed the guard, or is on its way to record that it did.
Passed(i) == ilog[i].admitted \/ ilog[i].pc = "record"

\* C24: the dedup check-and-record is atomic with respect to concurrently
\* handled requests: of two identical signals for the same instrument,
\* whatever the interleaving of their handlers at the await points, exactly
\* one passes the guard.
ExactlyOneOfConcurrentPairPasses ==
    \A i, j \in DOMAIN ilog :
       IdenticalPairAlone(i, j) => (Passed(i) # Passed(j))

\* Two identical signals were in flight together: the guard of one ran while
\* the handler of the other was suspended at its first await; one passed.
ConcurrentPairDecided ==
    \E i, j \in DOMAIN ilog :
       /\ IdenticalPairAlone(i, j)
       /\ ilog[i].overlapped
       /\ ilog[i].pc = "done" /\ ilog[j].pc = "done"
       /\ ilog[i].admitted # ilog[j].admitted

(***************************************************************************)
(* SpecCleanup: main.py's guard, is_duplicate_alert (205-242), together    *)
(* with cleanup_old_tracking_data (253-272), over a clock that runs beyond *)
(* the cutoff of the cleanup.  A call of the cleanup is logged in dlog     *)
(* among the verdicts of the guard, with last_alert before and after it.   *)
(* completed_trades, which the cleanup prunes in the same way (266-272),   *)
(* is read by no guard and is left out.                                    *)
(***************************************************************************)
CleanupTimeStep == 20     \* the clock of SpecCleanup advances in these steps
CleanupMaxTime == 80      \* and stops here

COMPLETED_TRADE_COOLDOWN == 30            \* main.py line 26

\* Line 256: max(DUPLICATE_THRESHOLD_SECONDS, COMPLETED_TRADE_COOLDOWN) * 2.
CleanupCutoff ==
    2 * (IF DUPLICATE_THRESHOLD_SECONDS >= COMPLETED_TRADE_COOLDOWN
         THEN DUPLICATE_THRESHOLD_SECONDS ELSE COMPLETED_TRADE_COOLDOWN)

\* A variant of the test of line 261 that holds of every record.
is_older_than_now(timestamp, current_time) == timestamp <= current_time

\* A variant of the test of line 261 that measures one window only.
is_older_than_window(timestamp, current_time) ==
    timestamp < current_time - DUPLICATE_THRESHOLD_SECONDS

\* Line 261: `data["timestamp"] < cutoff_time`.
is_older_than_cutoff(timestamp, current_time) ==
    timestamp < current_time - CleanupCutoff

\* Lines 259-264: last_alert once the symbols_to_remove are deleted.
cleaned(table, current_time) ==
    [s \in DOMAIN table |->
        IF table[s] # NoAlert /\ is_older_than_cutoff(table[s].timestamp, current_time)
        THEN NoAlert ELSE table[s]]

\* cleanup_old_tracking_data (253-272).
Cleanup ==
    /\ variant = "main"
    /\ Len(dlog) < MaxAlerts
    /\ last_alert' = cleaned(last_alert, now)
    /\ dlog' = Append(dlog, [alert |-> NoData, time |-> now, admitted |-> FALSE,
                             before |-> last_alert, after |-> last_alert'])
    /\ UNCHANGED <<variant, now, brokerVars, fixedVars, mainVars, optVars, extVars>>

CleanupTick ==
    /\ now + CleanupTimeStep <= CleanupMaxTime
    /\ now' = now + CleanupTimeStep
    /\ UNCHANGED <<brokerVars, fixedVars, mainVars, last_alert, optVars, dedupVars, extVars>>

InitCleanup ==
    /\ InitBroker /\ InitFixed /\ mm = NoMainMonitor /\ InitOpt /\ InitExt
    /\ variant = "main"
    /\ dlog = <<>>

NextCleanup ==
    \/ \E data \in DedupAlerts : DedupMain(data)
    \/ Cleanup
    \/ CleanupTick

SpecCleanup == InitCleanup /\ [][NextCleanup]_vars

\* Entry n of dlog is a call of the cleanup; otherwise it is a verdict.
IsCleanup(n) == n \in DOMAIN dlog /\ "before" \in DOMAIN dlog[n]

IsVerdict(n) == n \in DOMAIN dlog /\ "before" \notin DOMAIN dlog[n]

CleanupBetweenIdentical(n) ==
    /\ IsVerdict(n - 1) /\ IsCleanup(n) /\ IsVerdict(n + 1)
    /\ dlog[n - 1].admitted
    /\ dlog[n].time - dlog[n - 1].time < CleanupCutoff
    /\ hash_alert_main(dlog[n + 1].alert) = hash_alert_main(dlog[n - 1].alert)
    /\ dlog[n + 1].time - dlog[n - 1].time < DUPLICATE_THRESHOLD_SECONDS

AgeAtCleanup(n, s) == dlog[n].time - dlog[n].before[s].timestamp

AdmittedRecord(data, t) ==
    IF variant = "main"
    THEN [direction |-> data.action, timestamp |-> t,
          alert_hash |-> hash_alert_main(data)]
    ELSE [direction |-> OptParse(data).action, timestamp |-> t,
          alert_hash |-> create_alert_hash(OptParse(data))]

\* C29: a suppressed duplicate leaves the DedupRecord unchanged (hash,
\* direction and timestamp, so the window is measured from the last admitted
\* signal); every admitted signal overwrites the record of its instrument
\* and of no other instrument.
SuppressedLeavesRecordAdmittedOverwrites ==
    [][(variant \in {"main", "optimized"} /\ Len(dlog') = Len(dlog) + 1) =>
          LET verdict == dlog'[Len(dlog')]
              symbol == verdict.alert.symbol
          IN IF ~verdict.admitted
             THEN last_alert' = last_alert
             ELSE /\ last_alert'[symbol] = AdmittedRecord(verdict.alert, now)
                  /\ \A s \in Symbols \ {symbol} : last_alert'[s] = last_alert[s]]_vars

\* The last delivery was suppressed some time after an alert for the same
\* instrument was admitted, and the record still is the one the admitted
\* alert left, with the time of its admission.
RecordKeptBySuppressedDuplicate ==
    /\ variant \in {"main", "optimized"}
    /\ Len(dlog) >= 2
    /\ ~dlog[Len(dlog)].admitted
    /\ \E i \in 1..(Len(dlog) - 1) :
          /\ dlog[i].admitted
          /\ dlog[i].time < dlog[Len(dlog)].time
          /\ dlog[i].alert.symbol = dlog[Len(dlog)].alert.symbol
          /\ last_alert[dlog[i].alert.symbol] = AdmittedRecord(dlog[i].alert, dlog[i].time)

(***************************************************************************)
(* SpecCancelAll: one call of cancel_all_orders(symbol) (main.py 86-117,   *)
(* enhanced_main.py 39-70, the same text) on a broker that holds orders of *)
(* two instruments and of two signals.  Here an order is [symbol, status,  *)
(* owner (the signal that created it)], and rc holds                       *)
(*   pc:      "round" (at the head of the for loop), "final" (before the   *)
(*            final check of lines 112-117) or "done";                     *)
(*   lists:   for each listing of the loop, the order list the broker      *)
(*            answered and the ids whose cancellation was requested;       *)
(*   sleeps:  each asyncio.sleep, in milliseconds;                         *)
(*   remaining: the open orders the final check found and logged;          *)
(*   result:  "returned" or "raised".                                      *)
(* The broker honours any part of the cancel requests of a round, and a    *)
(* working order may fill between two rounds.                              *)
(***************************************************************************)
CANCEL_PAUSE_MS == 500                   \* asyncio.sleep(0.5), main.py line 110

\* A variant of the loop head that allows one round more.
budget_exhausted_late(rounds) == rounds = MAX_CANCEL_RETRIES + 1

\* Line 94: `for attempt in range(max_retries)` ends after max_retries rounds.
budget_exhausted(rounds) == rounds = MAX_CANCEL_RETRIES

\* Line 99: the orders of the symbol that are not Filled, Cancelled or
\* Rejected.
open_orders(listed, symbol) ==
    { id \in DOMAIN listed :
         listed[id].symbol = symbol /\ is_open_main(listed[id].status) }

CaOrder(symbol, status, owner) == [symbol |-> symbol, status |-> status, owner |-> owner]

\* The order lists the call may find at the broker.
CancelAllBrokers ==
    { << CaOrder("NQ", s1, 1), CaOrder("NQ", s2, 2), CaOrder("ES", s3, 1) >> :
         s1 \in {"Working", "Suspended", "Filled"},
         s2 \in {"Working", "Cancelled", "Rejected"},
         s3 \in {"Working", "Filled"} }

\* Lines 94-110: one round of the loop.  The listing may fail (ok = FALSE:
\* raise_for_status or the request raises out of the function); a cancel
\* request that fails is caught and logged (105-109).
CaRound(ok, honoured) ==
    /\ "lists" \in DOMAIN rc
    /\ rc.pc = "round"
    /\ IF ~ok
       THEN /\ honoured = {}
            /\ rc' = [rc EXCEPT !.pc = "done", !.result = "raised"]
            /\ UNCHANGED orders
       ELSE LET open == open_orders(orders, rc.symbol)
                listed == [rc EXCEPT !.lists = Append(@, [orders |-> orders,
                                                          requested |-> open])]
            IN IF open = {}
               THEN /\ honoured = {}
                    /\ rc' = [listed EXCEPT !.pc = "final"]
                    /\ UNCHANGED orders
               ELSE /\ honoured \subseteq open
                    /\ orders' = [id \in DOMAIN orders |->
                                     IF id \in honoured
                                     THEN [orders[id] EXCEPT !.status = "Cancelled"]
                                     ELSE orders[id]]
                    /\ rc' = [listed EXCEPT
                                 !.sleeps = Append(@, CANCEL_PAUSE_MS),
                                 !.attempt = @ + 1,
                                 !.pc = IF budget_exhausted(rc.attempt + 1)
                                        THEN "final" ELSE "round"]
    /\ UNCHANGED <<netPos, notExtVars, notReconcileVars>>

\* Lines 111-117: the final check lists once more and logs what is left.
CaFinal(ok) ==
    /\ "lists" \in DOMAIN rc
    /\ rc.pc = "final"
    /\ rc' = IF ~ok THEN [rc EXCEPT !.pc = "done", !.result = "raised"]
             ELSE LET open == open_orders(orders, rc.symbol)
                  IN [rc EXCEPT !.pc = "done", !.result = "returned",
                                !.checked = TRUE, !.remaining = open,
                                !.log = IF open # {} THEN Append(@, "error") ELSE @]
    /\ UNCHANGED <<brokerVars, notExtVars, notReconcileVars>>

\* A working order fills at the broker while the call is suspended.
CaFill(id) ==
    /\ "lists" \in DOMAIN rc
    /\ rc.pc # "done"
    /\ id \in DOMAIN orders
    /\ orders[id].status = "Working"
    /\ orders' = [orders EXCEPT ![id].status = "Filled"]
    /\ netPos' = netPos + 1
    /\ UNCHANGED <<notExtVars, extVars>>

InitCancelAll ==
    /\ orders \in CancelAllBrokers
    /\ netPos = 0
    /\ InitFixed /\ mm = NoMainMonitor /\ InitOpt /\ InitNoDedup
    /\ ilog = <<>> /\ sl = NoStopLoss /\ ad = NoAdapterCall
    /\ rc = [pc |-> "round", symbol |-> "NQ", attempt |-> 0, lists |-> <<>>,
             sleeps |-> <<>>, checked |-> FALSE, remaining |-> {}, log |-> <<>>,
             result |-> "none"]

NextCancelAll ==
    \/ \E ok \in BOOLEAN, honoured \in SUBSET (1..3) : CaRound(ok, honoured)
    \/ \E ok \in BOOLEAN : CaFinal(ok)
    \/ \E id \in 1..3 : CaFill(id)

SpecCancelAll == InitCancelAll /\ [][NextCancelAll]_vars

\* The call proceeds whenever it can: the steps of the call itself are
\* taken, the broker need not fill anything.
SpecCancelAllFair ==
    SpecCancelAll /\ WF_vars(\E ok \in BOOLEAN, honoured \in SUBSET (1..3) :
                                CaRound(ok, honoured))
                  /\ WF_vars(\E ok \in BOOLEAN : CaFinal(ok))

\* C26: each cancel round of cancel_all_orders(symbol) requests cancellation
\* of every listed order of the symbol whose status is not Filled, Cancelled
\* or Rejected, whichever signal created it, and of no order that is in a
\* terminal status or belongs to another symbol.
CancelRoundTargetsOpenOrdersOfSymbol ==
    \A n \in DOMAIN rc.lists :
       LET listed == rc.lists[n].orders
       IN \A id \in DOMAIN listed :
             id \in rc.lists[n].requested <=>
                /\ listed[id].symbol = rc.symbol
                /\ listed[id].status \notin {"Filled", "Cancelled", "Rejected"}

\* A round requested the cancellation of a suspended order of the symbol,
\* created by one signal, while it listed an order of the symbol in a
\* terminal status, created by another signal, and a working order of the
\* other instrument, and requested neither.
CancelRoundSparedOthers ==
    \E n \in DOMAIN rc.lists :
       LET listed == rc.lists[n].orders
       IN /\ \E id \in rc.lists[n].requested : listed[id].status = "Suspended"
          /\ \E id \in DOMAIN listed \ rc.lists[n].requested :
                listed[id].symbol = rc.symbol /\ listed[id].owner = 2
          /\ \E id \in DOMAIN listed \ rc.lists[n].requested :
                listed[id].symbol # rc.symbol /\ listed[id].status = "Working"

\* The listings of the loop that found an order to cancel.
CancelRounds == { n \in DOMAIN rc.lists : rc.lists[n].requested # {} }

CancelAllBounded ==
    /\ Cardinality(CancelRounds) <= 8
    /\ Len(rc.sleeps) = Cardinality(CancelRounds)
    /\ \A n \in DOMAIN rc.sleeps : rc.sleeps[n] = 500
    /\ \A n \in DOMAIN rc.lists : n < Len(rc.lists) => n \in CancelRounds
    /\ (rc.pc \in {"final", "done"} /\ rc.result # "raised") =>
          \/ rc.lists[Len(rc.lists)].requested = {}
          \/ Cardinality(CancelRounds) = 8
    /\ (rc.pc = "done" /\ rc.checked) =>
          /\ rc.result = "returned"
          /\ rc.remaining # {} <=> rc.log # <<>>

FlattenKinds == {"force_close", "fast_close", "close_position"}

PositionSizes == {0 - 2, 0, 1}

\* tradovate_api.py 640, tradovate_api_optimized.py 432, tradovate_api.py 509.
time_in_force(kind) == IF kind = "close_position" THEN "GTC" ELSE "IOC"

\* tradovate_api.py 632-642 (496-511, tradovate_api_optimized.py 424-434).
close_order(kind, symbol, net_pos) ==
    [symbol |-> symbol,
     action |-> IF net_pos > 0 THEN "Sell" ELSE "Buy",
     orderQty |-> IF net_pos > 0 THEN net_pos ELSE 0 - net_pos,
     orderType |-> "Market",
     timeInForce |-> time_in_force(kind)]

\* get_positions (tradovate_api.py 432, tradovate_api_optimized.py 322)
\* returns the positions with netPos != 0; close_position then keeps the
\* one of its symbol (479-486).
FlList(ok) ==
    /\ "kind" \in DOMAIN rc /\ rc.kind \in FlattenKinds
    /\ rc.pc = "list"
    /\ rc' = IF ~ok THEN [rc EXCEPT !.pc = "done", !.result = "raised"]
             ELSE LET open == { s \in Symbols : has_open_position(netPos[s]) }
                      todo == IF rc.kind = "close_position"
                              THEN open \cap {rc.symbol} ELSE open
                  IN [rc EXCEPT !.positions = [s \in Symbols |-> netPos[s]],
                                !.todo = todo,
                                !.pc = IF todo = {} THEN "done" ELSE "close",
                                !.result = IF todo = {} THEN "returned" ELSE @]
    /\ UNCHANGED <<brokerVars, notExtVars, notReconcileVars>>

\* The close order for one listed position is built and posted; the broker
\* executes it (accepted) or answers with an error, which force_close and
\* _fast_close_position log and close_position raises.
FlClose(symbol, accepted) ==
    /\ "kind" \in DOMAIN rc /\ rc.kind \in FlattenKinds
    /\ rc.pc = "close"
    /\ symbol \in rc.todo
    /\ LET net_pos == rc.positions[symbol]
           order == close_order(rc.kind, symbol, net_pos)
           left == rc.todo \ {symbol}
       IN /\ orders' = Append(orders, [order |-> order, held |-> netPos[symbol],
                                       accepted |-> accepted])
          /\ netPos' = IF accepted
                       THEN [netPos EXCEPT ![symbol] =
                                IF order.action = "Sell" THEN @ - order.orderQty
                                ELSE @ + order.orderQty]
                       ELSE netPos
          /\ rc' = IF ~accepted /\ rc.kind = "close_position"
                   THEN [rc EXCEPT !.todo = left, !.pc = "done", !.result = "raised"]
                   ELSE [rc EXCEPT !.todo = left,
                                   !.pc = IF left = {} THEN "done" ELSE "close",
                                   !.result = IF left = {} THEN "returned" ELSE @]
    /\ UNCHANGED <<notExtVars, notReconcileVars>>

InitFlatten ==
    /\ orders = <<>>
    /\ netPos \in [Symbols -> PositionSizes]
    /\ InitFixed /\ mm = NoMainMonitor /\ InitOpt /\ InitNoDedup
    /\ ilog = <<>> /\ sl = NoStopLoss /\ ad = NoAdapterCall
    /\ \E kind \in FlattenKinds, symbol \in Symbols :
          rc = [kind |-> kind, symbol |-> symbol, pc |-> "list",
                positions |-> [s \in Symbols |-> 0], todo |-> {}, result |-> "none"]

NextFlatten ==
    \/ \E ok \in BOOLEAN : FlList(ok)
    \/ \E symbol \in Symbols, accepted \in BOOLEAN : FlClose(symbol, accepted)

SpecFlatten == InitFlatten /\ [][NextFlatten]_vars

\* C28: a flattening order is submitted for an instrument only when its net
\* position is non-zero, and it is a Market immediate-or-cancel order on the
\* opposite side (Sell if netPos > 0, Buy if netPos < 0) with quantity equal
\* to |netPos|.
FlattenOrderIsOppositeMarketIOC ==
    \A n \in DOMAIN orders :
       LET o == orders[n].order
           held == orders[n].held
       IN /\ held # 0
          /\ o.orderType = "Market"
          /\ o.timeInForce = "IOC"
          /\ o.action = (IF held > 0 THEN "Sell" ELSE "Buy")
          /\ o.orderQty = (IF held > 0 THEN held ELSE 0 - held)

(***************************************************************************)
(* A failed broker call inside monitor_all_orders                          *)
(* (main.py 303-429, main_fixed.py 134-218)                                *)
(***************************************************************************)
\* This step of main.py's monitor is a broker call that failed: the status
\* request raised, the placeOSO request raised, or the cancel request raised
\* or was answered with a status other than 200.
MainCallFailed ==
    \/ MainPoll(FALSE)
    \/ MainPlaceOSO("raise")
    \/ MainCancel("raise")
    \/ MainCancel("noop")

\* The monitor has not returned from the call, and holds what it had learned.
MainKeepsPolling ==
    /\ mm'.how # "exit"
    /\ mm'.entry_filled = mm.entry_filled
    /\ mm'.tracking = mm.tracking

\* C31: a failed broker call inside the monitor loop (status poll, stop
\* placement or cancel) does not end the monitor: entry_filled and
\* order_tracking keep their values and the loop goes on polling.
FailedCallKeepsMonitorPolling == [][MainCallFailed => MainKeepsPolling]_vars

\* The same for monitor k of main_fixed.py, for a call that raised.
FixedCallRaised(k) ==
    \/ MonPoll(k, FALSE)
    \/ MonPlaceStopFallback(k, "raise")
    \/ MonCancel(k, "raise")

FixedKeepsPolling(k) ==
    /\ mons'[k].how # "exit"
    /\ mons'[k].entry_filled = mons[k].entry_filled
    /\ mons'[k].tracking = mons[k].tracking

RaisedCallKeepsFixedMonitorPolling ==
    [][\A k \in DOMAIN mons : FixedCallRaised(k) => FixedKeepsPolling(k)]_vars

RefusedCancelKeepsFixedMonitorPolling ==
    [][\A k \in DOMAIN mons : MonCancel(k, "noop") => FixedKeepsPolling(k)]_vars

(***************************************************************************)
(* tradovate_api_optimized.py: cancel_all_pending_orders (247-280) with    *)
(* _cancel_order_fast (282-297).                                           *)
(*                                                                         *)
(* The call is held in rc:                                                 *)
(*   [pc, pending, tasks, ret, result, code]                               *)
(* pending is the answer of get_pending_orders, a sequence of order ids    *)
(* with NoId for an order without an id; tasks are the coroutines handed   *)
(* to asyncio.gather, in the order of cancel_tasks:                        *)
(*   [id, state, status, raised, value]                                    *)
(* with state "ready" (created), "sent" (its request is in flight) or      *)
(* "done"; ret is the list the call returns.                               *)
(***************************************************************************)
\* The answers of get_pending_orders the call is run on.
BatchPendingLists == {<<>>, <<NoId>>, <<1>>, <<1, 2>>, <<1, NoId, 2>>, <<1, 2, 3>>}

\* Line 262: `if order_id:`.
has_id(order_id) == order_id # NoId

\* A variant of the test of line 270 that keeps every result.
keeps_every_result(result) == TRUE

\* Lines 270-273: a result of gather is kept unless it is an exception.
keeps_result(result) == ~result.raised

\* Lines 284-297: _cancel_order_fast returns what cancel_order returns, turns
\* an HTTPException of status 404 into the already_handled result and
\* raises every other exception again.
cancel_order_fast(answer) ==
    LET r == cancel_order(answer)
    IN IF ~r.raised THEN [raised |-> FALSE, value |-> r.value]
       ELSE IF is_not_found(r.code)
       THEN [raised |-> FALSE, value |-> "already_handled"]
       ELSE [raised |-> TRUE, value |-> "exception"]

NoStatus == 0 - 1

\* Lines 259-263: one coroutine for every listed order that has an id.
cancel_tasks(pending) ==
    LET with_id == SelectSeq(pending, has_id)
    IN [t \in DOMAIN with_id |->
           [id |-> with_id[t], state |-> "ready", status |-> NoStatus,
            raised |-> FALSE, value |-> "none"]]

\* Lines 252-263: the pending orders are listed; a failure is raised as
\* status 500 (278-280), an empty list is answered with [] (254-256).
BcList(ok) ==
    /\ rc.pc = "list"
    /\ rc' = IF ~ok
             THEN [rc EXCEPT !.pc = "done", !.result = "raised", !.code = 500]
             ELSE IF rc.pending = <<>>
             THEN [rc EXCEPT !.pc = "done", !.result = "returned"]
             ELSE [rc EXCEPT !.pc = "gather", !.tasks = cancel_tasks(rc.pending)]
    /\ UNCHANGED <<brokerVars, notExtVars, notReconcileVars>>

\* Line 266 with 285 and 230: gather runs the coroutines together; task t
\* posts its cancel request.
BcSend(t) ==
    /\ rc.pc = "gather"
    /\ t \in DOMAIN rc.tasks
    /\ rc.tasks[t].state = "ready"
    /\ rc' = [rc EXCEPT !.tasks[t].state = "sent"]
    /\ UNCHANGED <<brokerVars, notExtVars, notReconcileVars>>

\* Lines 230-245 and 284-297: the request of task t is answered; the task
\* ends with a result or with an exception, which gather hands back in its
\* place (return_exceptions=True).
BcAnswer(t, answer) ==
    /\ rc.pc = "gather"
    /\ t \in DOMAIN rc.tasks
    /\ rc.tasks[t].state = "sent"
    /\ answer \in CancelAnswers
    /\ LET r == cancel_order_fast(answer)
       IN rc' = [rc EXCEPT !.tasks[t] = [@ EXCEPT !.state = "done",
                                                   !.status = answer.status,
                                                   !.raised = r.raised,
                                                   !.value = r.value]]
    /\ UNCHANGED <<brokerVars, notExtVars, notReconcileVars>>

\* Lines 268-276: once gather has every result, those that are not
\* exceptions are returned in the order of the tasks.
BcCollect ==
    /\ rc.pc = "gather"
    /\ \A t \in DOMAIN rc.tasks : rc.tasks[t].state = "done"
    /\ LET kept == SelectSeq(rc.tasks, keeps_result)
       IN rc' = [rc EXCEPT !.pc = "done", !.result = "returned",
                           !.ret = [n \in DOMAIN kept |->
                                       [id |-> kept[n].id, value |-> kept[n].value]]]
    /\ UNCHANGED <<brokerVars, notExtVars, notReconcileVars>>

InitBatchCancel ==
    /\ InitBroker /\ InitFixed /\ mm = NoMainMonitor /\ InitOpt /\ InitNoDedup
    /\ ilog = <<>> /\ sl = NoStopLoss /\ ad = NoAdapterCall
    /\ \E pending \in BatchPendingLists :
          rc = [pc |-> "list", pending |-> pending, tasks |-> <<>>, ret |-> <<>>,
                result |-> "none", code |-> 0]

NextBatchCancel ==
    \/ \E ok \in BOOLEAN : BcList(ok)
    \/ \E t \in 1..3 : BcSend(t)
    \/ \E t \in 1..3, answer \in CancelAnswers : BcAnswer(t, answer)
    \/ BcCollect

SpecBatchCancel == InitBatchCancel /\ [][NextBatchCancel]_vars

\* The cancel was honoured: answered 200, or 404 (already handled).
CancelSucceeded(task) == task.status \in {200, 404}

\* C32: the batch cancellation of the optimized adapter issues a cancel for
\* every pending order that has an id, all concurrently: no task waits for
\* another, the failure of one cancel neither prevents nor aborts the others
\* (the call returns only when every task has been answered), and the list
\* returned holds exactly the results of the cancels that succeeded, an
\* order answered 404 included.
BatchCancelIndependentAndExact ==
    /\ rc.pc = "gather" =>
          /\ [t \in DOMAIN rc.tasks |-> rc.tasks[t].id] = SelectSeq(rc.pending, has_id)
          /\ \A t \in DOMAIN rc.tasks :
                rc.tasks[t].state = "ready" => ENABLED BcSend(t)
    /\ (rc.pc = "done" /\ rc.result = "returned") =>
          /\ \A t \in DOMAIN rc.tasks : rc.tasks[t].state = "done"
          /\ LET ok == SelectSeq(rc.tasks, CancelSucceeded)
             IN rc.ret = [n \in DOMAIN ok |-> [id |-> ok[n].id, value |-> ok[n].value]]

\* The first of three cancels failed, the others were sent all the same and
\* succeeded, one with 404, and the call returned the two.
BatchCancelOneFailedOthersReturned ==
    /\ rc.pc = "done" /\ rc.result = "returned"
    /\ Len(rc.tasks) = 3
    /\ rc.tasks[1].status = 500
    /\ rc.tasks[2].status = 404
    /\ rc.tasks[3].status = 200
    /\ Len(rc.ret) = 2

(***************************************************************************)
(* main_fixed.py: the monitor of an earlier signal and the reconciliation  *)
(* of a later one (webhook 283-288, create_task 406-407)                   *)
(***************************************************************************)
\* The handler of a delivery later than the one that started monitor k has
\* gone past the cancel request of its cancel+flatten step (line 285).
LaterReconciliationBegun(k) ==
    \/ /\ mons[k].owner < CurDelivery
       /\ wpc \in {"flatten", "wait", "checkpos", "checkord", "place"}
    \/ \E n \in DOMAIN responses :
          /\ n > mons[k].owner
          /\ responses[n].status \in {"skipped", "success"}

\* This step is monitor k sending a STOP placement or a cancel request.
MonitorSubmits(k) ==
    \/ \E outcome \in {"ok", "noid", "raise"} : MonPlaceStop(k, outcome)
    \/ \E outcome \in {"ok", "noid", "raise"} : MonPlaceStopFallback(k, outcome)
    \/ \E outcome \in {"done", "noop", "raise"} : MonCancel(k, outcome)

\* C33: a monitor started for an earlier signal never submits a STOP order
\* or cancels an order once the reconciliation (cancel+flatten) of a later
\* signal has begun.
SupersededMonitorSubmitsNothing ==
    [][\A k \in DOMAIN mons : LaterReconciliationBegun(k) => ~MonitorSubmits(k)]_vars

(***************************************************************************)
(* A TAKE_PROFIT fill seen by the monitor (main.py 389-406,                *)
(* main_fixed.py 188-194)                                                  *)
(***************************************************************************)
\* Monitor m has taken the branch of a TP1 fill: it is about to post the
\* cancel of the STOP, or it has returned from that branch without one.
TakeProfitFillActedOn(m) ==
    /\ m.tracking["TP1"] # NoId
    /\ \/ m.pc = "cancel" /\ Labels[m.i] = "TP1"
       \/ m.pc = "done" /\ m.how = "exit" /\ m.tracking["STOP"] = NoId

\* The ENTRY order of monitor m, if it tracks one, has been filled.
EntryOrderFilled(m) ==
    m.tracking["ENTRY"] # NoId => orders[m.tracking["ENTRY"]].status = "Filled"

\* C34: a TAKE_PROFIT fill makes the monitor cancel the STOP and return only
\* once the ENTRY has filled: a TAKE_PROFIT that filled before the ENTRY
\* never makes the monitor cancel the STOP or return while the ENTRY order
\* is still working.
TakeProfitExitOnlyAfterEntryFill ==
    TakeProfitFillActedOn(mm) => EntryOrderFilled(mm)

\* The same for the monitors of main_fixed.py, which also requires its own
\* entry_filled flag (line 188).
FixedTakeProfitExitOnlyAfterEntryFill ==
    \A k \in DOMAIN mons :
       TakeProfitFillActedOn(mons[k]) => mons[k].entry_filled /\ EntryOrderFilled(mons[k])

(***************************************************************************)
(* main_fixed.py: a TAKE_PROFIT without its ENTRY (webhook 316-340 and     *)
(* 372-407, monitor 204-212)                                               *)
(***************************************************************************)
\* The bracket of monitor m has no live ENTRY: its placement failed (or the
\* plan had none), or the broker has cancelled or rejected the order.
EntryNotLive(m) ==
    \/ m.tracking["ENTRY"] = NoId
    \/ orders[m.tracking["ENTRY"]].status \in {"Cancelled", "Rejected"}

\* Every alert admitted so far carried PRICE, so every plan had an ENTRY.
EveryAlertHadEntryPrice == \A h \in recent_alert_hashes : "PRICE" \in h.keys

\* C35: a TAKE_PROFIT is never left working without a live ENTRY: when the
\* ENTRY placement failed, or the ENTRY was rejected or cancelled, the
\* TAKE_PROFIT the webhook placed has been cancelled by the time the webhook
\* and the monitor have finished with the bracket.
TakeProfitCancelledWithoutEntry ==
    \A k \in DOMAIN mons :
       (/\ EveryAlertHadEntryPrice
        /\ mons[k].pc = "done"
        /\ mons[k].tracking["TP1"] # NoId
        /\ EntryNotLive(mons[k])) =>
          orders[mons[k].tracking["TP1"]].status = "Cancelled"

(***************************************************************************)
(* fixed_stop_loss.py: the STOP orders of one bracket (237-304)            *)
(***************************************************************************)
\* The STOP orders the broker has accepted for the bracket.
StopOrdersAccepted == { id \in OrderIds : orders[id].label = "STOP" }

\* C36: at most one STOP order per bracket is ever accepted by the broker:
\* the retry loop and the direct placement never leave two STOP orders, even
\* when a placement was accepted but its response was lost, raised or lacked
\* an id.
AtMostOneStopPerBracket == Cardinality(StopOrdersAccepted) <= 1

(***************************************************************************)
(* SpecForceClose: the closing loop and the final verification of          *)
(* force_close_all_positions_immediately (tradovate_api.py 605-670) on an  *)
(* account with one instrument.                                            *)
(*                                                                         *)
(* netPos is the position the broker holds; rc.published is the position   *)
(* its /position/list answers with, which follows netPos when the broker   *)
(* publishes the update.  orders holds the close orders posted, as in      *)
(* SpecFlatten.  rc is                                                     *)
(*   [pc, attempt, initial, published, net_pos, result]                    *)
(* with pc "list", "close", "verify" or "done", initial the position held  *)
(* when the loop was entered and net_pos the value read at line 620.       *)
(***************************************************************************)
\* The broker publishes the position it holds.
BrokerPublish ==
    /\ rc.pc # "done"
    /\ rc.published # netPos
    /\ rc' = [rc EXCEPT !.published = netPos]
    /\ UNCHANGED <<brokerVars, notExtVars, notReconcileVars>>

\* Lines 656-657 and 608: the next attempt, or the final verification after
\* the last one.
next_attempt(r) ==
    IF r.attempt + 1 < max_attempts
    THEN [r EXCEPT !.attempt = @ + 1, !.pc = "list"]
    ELSE [r EXCEPT !.attempt = @ + 1, !.pc = "verify"]

\* Lines 613-622: the positions are listed; with none open the call returns
\* True; an exception is logged (656-657) and the next attempt follows.
FcList(ok) ==
    /\ rc.pc = "list"
    /\ rc' = IF ~ok THEN next_attempt(rc)
             ELSE IF ~has_open_position(rc.published)
             THEN [rc EXCEPT !.pc = "done", !.result = "True"]
             ELSE [rc EXCEPT !.pc = "close", !.net_pos = rc.published]
    /\ UNCHANGED <<brokerVars, notExtVars, notReconcileVars>>

\* Lines 631-653: the close order for the listed position is posted; the
\* broker executes it at once (accepted) or the request fails, which is
\* logged; two seconds later the next attempt follows.
FcClose(accepted) ==
    /\ rc.pc = "close"
    /\ LET order == close_order("force_close", "NQ", rc.net_pos)
       IN /\ orders' = Append(orders, [order |-> order, held |-> netPos,
                                       accepted |-> accepted])
          /\ netPos' = IF ~accepted THEN netPos
                       ELSE IF order.action = "Sell" THEN netPos - order.orderQty
                       ELSE netPos + order.orderQty
    /\ rc' = next_attempt(rc)
    /\ UNCHANGED <<notExtVars, notReconcileVars>>

\* Lines 660-670: the final verification.
FcVerify(ok) ==
    /\ rc.pc = "verify"
    /\ rc' = [rc EXCEPT !.pc = "done",
                        !.result = IF ok /\ ~has_open_position(rc.published)
                                   THEN "True" ELSE "False"]
    /\ UNCHANGED <<brokerVars, notExtVars, notReconcileVars>>

InitForceClose ==
    /\ orders = <<>>
    /\ netPos \in PositionSizes
    /\ InitFixed /\ mm = NoMainMonitor /\ InitOpt /\ InitNoDedup
    /\ ilog = <<>> /\ sl = NoStopLoss /\ ad = NoAdapterCall
    /\ rc = [pc |-> "list", attempt |-> 0, initial |-> netPos, published |-> netPos,
             net_pos |-> 0, result |-> "none"]

NextForceClose ==
    \/ \E ok \in BOOLEAN : FcList(ok)
    \/ \E accepted \in BOOLEAN : FcClose(accepted)
    \/ \E ok \in BOOLEAN : FcVerify(ok)
    \/ BrokerPublish

SpecForceClose == InitForceClose /\ [][NextForceClose]_vars

\* The quantity of the close orders among the first n that the broker executed.
RECURSIVE ExecutedQuantity(_)
ExecutedQuantity(n) ==
    IF n = 0 THEN 0
    ELSE ExecutedQuantity(n - 1) +
         (IF orders[n].accepted THEN orders[n].order.orderQty ELSE 0)

Magnitude(x) == IF x < 0 THEN 0 - x ELSE x

\* C37: across its attempts force_close_all_positions_immediately never
\* flattens more than the net position held when the cleanup began: the
\* quantity of its executed close orders stays within |initial position| and
\* the position is never reversed, even when the broker's position update
\* lags behind the 2 s wait.
FlattenNeverOvershoots ==
    /\ ExecutedQuantity(Len(orders)) <= Magnitude(rc.initial)
    /\ netPos * rc.initial >= 0

(***************************************************************************)
(* SpecFastClose: force_close_all_positions_immediately of the optimized   *)
(* adapter (tradovate_api_optimized.py 355-406) on an account with one     *)
(* instrument.                                                             *)
(*                                                                         *)
(* orders are the orders resting at the broker, [action, qty, status];     *)
(* netPos is the position held.  rc is                                     *)
(*   [pc, pending, net_pos, after_cancel, closes, result]                  *)
(* with pc "list", "cancel", "close", "verify" or "done", pending the ids  *)
(* whose cancel has not been answered, net_pos the position listed in      *)
(* step 1, after_cancel the position held when the last cancel was         *)
(* answered and closes the close orders posted.                            *)
(***************************************************************************)
\* The orders resting at the broker when the call starts.
RestingOrderLists ==
    {<<>>} \cup
    { <<[action |-> a, qty |-> 1, status |-> "Working"]>> : a \in {"Buy", "Sell"} } \cup
    { <<[action |-> a, qty |-> 1, status |-> "Working"],
        [action |-> b, qty |-> 1, status |-> "Working"]>> : a, b \in {"Buy", "Sell"} }

\* Lines 378-391: step 3 follows when the listed position is not zero
\* (384), else the verification of step 4.
after_cancels(r, held) ==
    [r EXCEPT !.after_cancel = held,
              !.pc = IF has_open_position(r.net_pos) THEN "close" ELSE "verify"]

\* Lines 356-361: the pending orders and the positions are listed together;
\* an exception ends the call with False (404-406).
FxList(ok) ==
    /\ rc.pc = "list"
    /\ rc' = IF ~ok THEN [rc EXCEPT !.pc = "done", !.result = "False"]
             ELSE LET pending == { id \in DOMAIN orders : is_pending(orders[id].status) }
                      listed == [rc EXCEPT !.pending = pending, !.net_pos = netPos]
                  IN IF pending = {} THEN after_cancels(listed, netPos)
                     ELSE [listed EXCEPT !.pc = "cancel"]
    /\ UNCHANGED <<brokerVars, notExtVars, notReconcileVars>>

\* The broker executes a resting order while the call runs.
FxFill(id) ==
    /\ rc.pc # "done"
    /\ id \in DOMAIN orders
    /\ orders[id].status = "Working"
    /\ orders' = [orders EXCEPT ![id].status = "Filled"]
    /\ netPos' = IF orders[id].action = "Buy" THEN netPos + orders[id].qty
                 ELSE netPos - orders[id].qty
    /\ UNCHANGED <<notExtVars, extVars>>

\* Lines 364-375 with 408-419: the cancel of one listed order is answered;
\* the broker cancels a working order when it honours the request, and
\* _fast_cancel_order only logs the answer.
FxCancel(id, honoured) ==
    /\ rc.pc = "cancel"
    /\ id \in rc.pending
    /\ orders' = IF honoured /\ orders[id].status = "Working"
                 THEN [orders EXCEPT ![id].status = "Cancelled"]
                 ELSE orders
    /\ rc' = IF rc.pending = {id}
             THEN after_cancels([rc EXCEPT !.pending = {}], netPos)
             ELSE [rc EXCEPT !.pending = @ \ {id}]
    /\ UNCHANGED <<netPos, notExtVars, notReconcileVars>>

\* Lines 382-391 with 421-442: the close order is built from the position
\* listed in step 1 and posted; the answer is only logged.
FxClose(accepted) ==
    /\ rc.pc = "close"
    /\ LET order == close_order("fast_close", "NQ", rc.net_pos)
       IN /\ rc' = [rc EXCEPT !.closes = Append(@, [order |-> order, held |-> netPos,
                                                     accepted |-> accepted]),
                              !.pc = "verify"]
          /\ netPos' = IF ~accepted THEN netPos
                       ELSE IF order.action = "Sell" THEN netPos - order.orderQty
                       ELSE netPos + order.orderQty
    /\ UNCHANGED <<orders, notExtVars, notReconcileVars>>

\* Lines 393-406: the positions are listed again a second later.
FxVerify(ok) ==
    /\ rc.pc = "verify"
    /\ rc' = [rc EXCEPT !.pc = "done",
                        !.result = IF ok /\ ~has_open_position(netPos)
                                   THEN "True" ELSE "False"]
    /\ UNCHANGED <<brokerVars, notExtVars, notReconcileVars>>

InitFastClose ==
    /\ orders \in RestingOrderLists
    /\ netPos \in PositionSizes
    /\ InitFixed /\ mm = NoMainMonitor /\ InitOpt /\ InitNoDedup
    /\ ilog = <<>> /\ sl = NoStopLoss /\ ad = NoAdapterCall
    /\ rc = [pc |-> "list", pending |-> {}, net_pos |-> 0, after_cancel |-> 0,
             closes |-> <<>>, result |-> "none"]

NextFastClose ==
    \/ \E ok \in BOOLEAN : FxList(ok)
    \/ \E id \in 1..2 : FxFill(id)
    \/ \E id \in 1..2, honoured \in BOOLEAN : FxCancel(id, honoured)
    \/ \E accepted \in BOOLEAN : FxClose(accepted)
    \/ \E ok \in BOOLEAN : FxVerify(ok)

SpecFastClose == InitFastClose /\ [][NextFastClose]_vars

\* C38: in the optimized force close every flattening order is sized from
\* the net position as it stands after all order cancellations have
\* completed: a close order has the quantity and the side that flatten that
\* position, and a position that stands then gets its close order, also when
\* an order filled between the listing and its cancellation.
FlattenSizedAfterCancellations ==
    /\ \A n \in DOMAIN rc.closes :
          /\ rc.closes[n].order.orderQty = Magnitude(rc.after_cancel)
          /\ rc.closes[n].order.action = (IF rc.after_cancel > 0 THEN "Sell" ELSE "Buy")
    /\ (rc.pc = "verify" /\ has_open_position(rc.after_cancel)) => rc.closes # <<>>

(***************************************************************************)
(* SpecFlatCheck: the check for resting orders that follows the cancel and *)
(* flatten step: wait_until_no_open_orders (main.py 127-145,               *)
(* main_fixed.py 58-76) and the open-order check of the webhook            *)
(* (main_fixed.py 300-309).                                                *)
(*                                                                         *)
(* orders are the orders at the broker as in SpecCancelAll; rc is          *)
(*   [pc, symbol, slept, timed_out, result]                                *)
(* with pc "wait", "check" or "done", slept set once a poll has found an   *)
(* open order and waited, and result "trade" when the handler goes on to   *)
(* place the new bracket.                                                  *)
(***************************************************************************)
\* main.py 139, main_fixed.py 70 and 306: the orders of the symbol that the
\* check takes as open.
resting_orders(listed, symbol) ==
    { id \in DOMAIN listed :
         listed[id].symbol = symbol /\ is_active_status(listed[id].status) }

\* One poll of wait_until_no_open_orders: it returns when no order is open
\* and, with a warning, when the timeout has passed; else it sleeps 0.5 s.
\* A failed listing raises out of the function and ends the handler.
FkWait(ok, expired) ==
    /\ rc.pc = "wait"
    /\ rc' = IF ~ok THEN [rc EXCEPT !.pc = "done", !.result = "error"]
             ELSE IF resting_orders(orders, rc.symbol) = {}
             THEN [rc EXCEPT !.pc = "check"]
             ELSE IF expired THEN [rc EXCEPT !.pc = "check", !.timed_out = TRUE]
             ELSE [rc EXCEPT !.slept = TRUE]
    /\ UNCHANGED <<brokerVars, notExtVars, notReconcileVars>>

\* main_fixed.py 300-309: with an open order the handler answers "skipped",
\* else it goes on to the order plan.
FkCheck(ok) ==
    /\ rc.pc = "check"
    /\ rc' = [rc EXCEPT !.pc = "done",
                        !.result = IF ~ok THEN "error"
                                   ELSE IF resting_orders(orders, rc.symbol) # {}
                                   THEN "skipped" ELSE "trade"]
    /\ UNCHANGED <<brokerVars, notExtVars, notReconcileVars>>

\* The broker ends a working order (the cancel of the step before takes
\* effect, or the order is executed).
FkBroker(id, status) ==
    /\ rc.pc # "done"
    /\ id \in DOMAIN orders
    /\ orders[id].status = "Working"
    /\ status \in {"Cancelled", "Filled"}
    /\ orders' = [orders EXCEPT ![id].status = status]
    /\ UNCHANGED <<netPos, notExtVars, extVars>>

InitFlatCheck ==
    /\ orders \in CancelAllBrokers
    /\ netPos = 0
    /\ InitFixed /\ mm = NoMainMonitor /\ InitOpt /\ InitNoDedup
    /\ ilog = <<>> /\ sl = NoStopLoss /\ ad = NoAdapterCall
    /\ rc = [pc |-> "wait", symbol |-> "NQ", slept |-> FALSE, timed_out |-> FALSE,
             result |-> "none"]

NextFlatCheck ==
    \/ \E ok \in BOOLEAN, expired \in BOOLEAN : FkWait(ok, expired)
    \/ \E ok \in BOOLEAN : FkCheck(ok)
    \/ \E id \in 1..3, status \in {"Cancelled", "Filled"} : FkBroker(id, status)

SpecFlatCheck == InitFlatCheck /\ [][NextFlatCheck]_vars

\* C39: the flat check counts as resting every order the cancel step treats
\* as cancellable: while an order of the instrument is in a status that is
\* not Filled, Cancelled or Rejected, wait_until_no_open_orders does not
\* return before its timeout and the open-order check does not let the
\* handler trade.
FlatCheckCountsEveryCancellableOrder ==
    /\ (rc.pc = "check" /\ ~rc.timed_out) => open_orders(orders, rc.symbol) = {}
    /\ (rc.pc = "done" /\ rc.result = "trade") => open_orders(orders, rc.symbol) = {}

====
